---- MODULE Spec2Model ----
(***************************************************************************)
(* Bible verse API: the Book Registry (app/utils/book_utils.py), the Query *)
(* Classifier (app/utils/query_parser.py) and the Text Renderer            *)
(* (app/utils/text_utils.py).                                              *)
(*                                                                         *)
(* A Python str is a sequence of characters.  A character is a one-letter  *)
(* string for printable ASCII and "U+XXXX" (its code point) otherwise, so  *)
(* "Gen" is <<"G","e","n">> and the Chinese alias of Genesis is            *)
(* <<"U+521B">>.  All string functions work on these sequences, character  *)
(* by character, as the Python built-ins and the re module do.             *)
(***************************************************************************)
EXTENDS Integers, Sequences, FiniteSets, TLC

VARIABLES
  pc,          \* position of the call in flight
  book_id,     \* registry: argument of get_book_short
  book_name,   \* registry: result of get_book_short / argument of get_book_id
  resolved,    \* registry: result of get_book_id
  query,       \* classifier: the raw q string
  result,      \* classifier: the dictionary parse_query returns
  text,        \* renderer: raw stored verse text
  queries,     \* renderer: highlight terms (NoQueries for None)
  strongs,     \* renderer: annotations requested
  formatted,   \* renderer: text after fix_text_encoding and process_formatting_tags
  annotated,   \* renderer: text after the annotation branch
  rendered,    \* renderer: the string process_bible_text returns
  chapter_count, \* registry: result of get_book_chapter_count
  likes,       \* store: the likes column of bible_books, per stored verse
  like_request,  \* like: the LikeRequest of each request in flight
  like_pc,     \* like: position of each request in like_verse
  like_seen,   \* like: the counter value each request's own UPDATE produced
  likes_initial, \* like: the likes column as it was when the requests arrived
  like_response, \* like: the LikeResponse each request returned
  request,     \* search: the parameters of the search request
  store,       \* search: the tables of the store, by name, with their rows
  jobs,        \* search: what search_verses has still to do, in order
  results,     \* search: the results list of search_verses
  response,    \* search: what the endpoint returns
  wiki_query,  \* wiki: the q parameter
  wiki_page,   \* wiki: the p parameter
  wiki_response  \* wiki: the WikiResponse the endpoint returns

registryVars == <<book_id, book_name, resolved, chapter_count>>
parserVars   == <<query, result>>
rendererVars == <<text, queries, strongs, formatted, annotated, rendered>>
likeVars     == <<likes, like_request, like_pc, like_seen, like_response, likes_initial>>
searchVars   == <<request, store, jobs, results, response>>
wikiVars     == <<wiki_query, wiki_page, wiki_response>>

vars == <<pc, registryVars, parserVars, rendererVars, likeVars, searchVars, wikiVars>>

-----------------------------------------------------------------------------
(* Characters and the str built-ins                                        *)

Digits == <<"0", "1", "2", "3", "4", "5", "6", "7", "8", "9">>
UpperLetters ==
  <<"A","B","C","D","E","F","G","H","I","J","K","L","M",
    "N","O","P","Q","R","S","T","U","V","W","X","Y","Z">>
LowerLetters ==
  <<"a","b","c","d","e","f","g","h","i","j","k","l","m",
    "n","o","p","q","r","s","t","u","v","w","x","y","z">>

Range(f) == {f[i] : i \in DOMAIN f}

\* \d of the re module, on the characters of the model
IsDigit(c) == c \in Range(Digits)
\* \s of the re module and the whitespace of str.strip / str.split
IsSpace(c) == c \in {" ", "\t", "\n", "\r", "\f"}
IsUpper(c) == c \in Range(UpperLetters)
IsLower(c) == c \in Range(LowerLetters)
\* [a-z] under re.IGNORECASE
IsLetter(c) == IsUpper(c) \/ IsLower(c)

LowerChar(c) ==
  IF IsUpper(c) THEN LowerLetters[CHOOSE i \in 1..26 : UpperLetters[i] = c] ELSE c

\* str.lower()
lower(s) == [i \in 1..Len(s) |-> LowerChar(s[i])]

\* the characters of two strings are equal under re.IGNORECASE
SameFold(a, b) == LowerChar(a) = LowerChar(b)

\* s[i-1 : j-1] of Python, on 1-based positions: the characters i .. j-1
Slice(s, i, j) == SubSeq(s, i, j - 1)

\* str.strip()
strip(s) ==
  IF \A i \in 1..Len(s) : IsSpace(s[i]) THEN <<>>
  ELSE LET a == CHOOSE i \in 1..Len(s) :
                  ~IsSpace(s[i]) /\ \A k \in 1..(i-1) : IsSpace(s[k])
           b == CHOOSE i \in 1..Len(s) :
                  ~IsSpace(s[i]) /\ \A k \in (i+1)..Len(s) : IsSpace(s[k])
       IN  SubSeq(s, a, b)

\* str.rstrip(chars)
rstrip(s, chars) ==
  IF \A i \in 1..Len(s) : s[i] \in chars THEN <<>>
  ELSE LET b == CHOOSE i \in 1..Len(s) :
                  s[i] \notin chars /\ \A k \in (i+1)..Len(s) : s[k] \in chars
       IN  SubSeq(s, 1, b)

\* position just past the longest run of characters in class C that starts at i
\* (a greedy C* of the re module)
RunEnd(s, i, C(_)) ==
  IF \E j \in i..Len(s) : ~C(s[j])
  THEN CHOOSE j \in i..Len(s) : ~C(s[j]) /\ \A k \in i..(j-1) : C(s[k])
  ELSE Len(s) + 1

IsNonSpace(c) == ~IsSpace(c)

\* str.split() without arguments: the maximal runs of non-whitespace, in order
RECURSIVE split(_)
\* the token that ends before position e of t, then the tokens of the rest
SplitAt(t, e) == <<Slice(t, 1, e)>> \o split(Slice(t, e, Len(t) + 1))
\* the tokens of a string that starts with none or with a token
SplitStripped(t) == IF t = <<>> THEN <<>> ELSE SplitAt(t, RunEnd(t, 1, IsNonSpace))
split(s) == SplitStripped(strip(s))

\* int() of a string of decimal digits
RECURSIVE int(_)
int(s) ==
  IF s = <<>> THEN 0
  ELSE 10 * int(SubSeq(s, 1, Len(s) - 1))
       + (CHOOSE d \in 0..9 : Digits[d + 1] = s[Len(s)])

\* s has the literal lit at position i
HasAt(s, i, lit) ==
  /\ i >= 1
  /\ i + Len(lit) - 1 <= Len(s)
  /\ \A k \in 1..Len(lit) : s[i + k - 1] = lit[k]

\* the same under re.IGNORECASE
HasAtFold(s, i, lit) ==
  /\ i >= 1
  /\ i + Len(lit) - 1 <= Len(s)
  /\ \A k \in 1..Len(lit) : SameFold(s[i + k - 1], lit[k])

\* lit occurs in s
Contains(s, lit) == \E i \in 1..Len(s) : HasAt(s, i, lit)

\* str.replace(old, new) for a non-empty old: the leftmost non-overlapping
\* occurrences, found in one scan of the original string
RECURSIVE replace(_, _, _)
replace(s, old, new) ==
  IF ~Contains(s, old) THEN s
  ELSE LET i == CHOOSE p \in 1..Len(s) :
                  HasAt(s, p, old) /\ \A k \in 1..(p-1) : ~HasAt(s, k, old)
       IN  Slice(s, 1, i) \o new
           \o replace(Slice(s, i + Len(old), Len(s) + 1), old, new)

-----------------------------------------------------------------------------
(* Book Registry: app/utils/book_utils.py                                  *)

BOOK_SHORT ==
  <<
    <<>>, <<"G","e","n">>, <<"E","x","o","d">>, <<"L","e","v">>, <<"N","u","m">>,
    <<"D","e","u","t">>, <<"J","o","s","h">>, <<"J","u","d","g">>, <<"R","u","t","h">>,
    <<"1","S","a","m">>, <<"2","S","a","m">>, <<"1","K","g","s">>, <<"2","K","g","s">>,
    <<"1","C","h","r">>, <<"2","C","h","r">>, <<"E","z","r","a">>, <<"N","e","h">>,
    <<"E","s","t","h">>, <<"J","o","b">>, <<"P","s">>, <<"P","r","o","v">>,
    <<"E","c","c","l">>, <<"S","o","n","g">>, <<"I","s","a">>, <<"J","e","r">>,
    <<"L","a","m">>, <<"E","z","e","k">>, <<"D","a","n">>, <<"H","o","s">>,
    <<"J","o","e","l">>, <<"A","m","o","s">>, <<"O","b","a","d">>, <<"J","o","n","a","h">>,
    <<"M","i","c">>, <<"N","a","h">>, <<"H","a","b">>, <<"Z","e","p","h">>, <<"H","a","g">>,
    <<"Z","e","c","h">>, <<"M","a","l">>, <<"M","a","t","t">>, <<"M","a","r","k">>,
    <<"L","u","k","e">>, <<"J","o","h","n">>, <<"A","c","t","s">>, <<"R","o","m">>,
    <<"1","C","o","r">>, <<"2","C","o","r">>, <<"G","a","l">>, <<"E","p","h">>,
    <<"P","h","i","l">>, <<"C","o","l">>, <<"1","T","h","e","s","s">>,
    <<"2","T","h","e","s","s">>, <<"1","T","i","m">>, <<"2","T","i","m">>,
    <<"T","i","t","u","s">>, <<"P","h","l","m">>, <<"H","e","b">>, <<"J","a","s">>,
    <<"1","P","e","t">>, <<"2","P","e","t">>, <<"1","J","o","h","n">>, <<"2","J","o","h","n">>,
    <<"3","J","o","h","n">>, <<"J","u","d","e">>, <<"R","e","v">>
  >>

BOOK_ENGLISH ==
  <<
    <<>>, <<"G","e","n","e","s","i","s">>, <<"E","x","o","d","u","s">>,
    <<"L","e","v","i","t","i","c","u","s">>, <<"N","u","m","b","e","r","s">>,
    <<"D","e","u","t","e","r","o","n","o","m","y">>, <<"J","o","s","h","u","a">>,
    <<"J","u","d","g","e","s">>, <<"R","u","t","h">>, <<"1"," ","S","a","m","u","e","l">>,
    <<"2"," ","S","a","m","u","e","l">>, <<"1"," ","K","i","n","g","s">>,
    <<"2"," ","K","i","n","g","s">>, <<"1"," ","C","h","r","o","n","i","c","l","e","s">>,
    <<"2"," ","C","h","r","o","n","i","c","l","e","s">>, <<"E","z","r","a">>,
    <<"N","e","h","e","m","i","a","h">>, <<"E","s","t","h","e","r">>, <<"J","o","b">>,
    <<"P","s","a","l","m","s">>, <<"P","r","o","v","e","r","b","s">>,
    <<"E","c","c","l","e","s","i","a","s","t","e","s">>,
    <<"S","o","n","g"," ","o","f"," ","S","o","l","o","m","o","n">>,
    <<"I","s","a","i","a","h">>, <<"J","e","r","e","m","i","a","h">>,
    <<"L","a","m","e","n","t","a","t","i","o","n","s">>, <<"E","z","e","k","i","e","l">>,
    <<"D","a","n","i","e","l">>, <<"H","o","s","e","a">>, <<"J","o","e","l">>,
    <<"A","m","o","s">>, <<"O","b","a","d","i","a","h">>, <<"J","o","n","a","h">>,
    <<"M","i","c","a","h">>, <<"N","a","h","u","m">>, <<"H","a","b","a","k","k","u","k">>,
    <<"Z","e","p","h","a","n","i","a","h">>, <<"H","a","g","g","a","i">>,
    <<"Z","e","c","h","a","r","i","a","h">>, <<"M","a","l","a","c","h","i">>,
    <<"M","a","t","t","h","e","w">>, <<"M","a","r","k">>, <<"L","u","k","e">>,
    <<"J","o","h","n">>, <<"A","c","t","s">>, <<"R","o","m","a","n","s">>,
    <<"1"," ","C","o","r","i","n","t","h","i","a","n","s">>,
    <<"2"," ","C","o","r","i","n","t","h","i","a","n","s">>,
    <<"G","a","l","a","t","i","a","n","s">>, <<"E","p","h","e","s","i","a","n","s">>,
    <<"P","h","i","l","i","p","p","i","a","n","s">>,
    <<"C","o","l","o","s","s","i","a","n","s">>,
    <<"1"," ","T","h","e","s","s","a","l","o","n","i","a","n","s">>,
    <<"2"," ","T","h","e","s","s","a","l","o","n","i","a","n","s">>,
    <<"1"," ","T","i","m","o","t","h","y">>, <<"2"," ","T","i","m","o","t","h","y">>,
    <<"T","i","t","u","s">>, <<"P","h","i","l","e","m","o","n">>,
    <<"H","e","b","r","e","w","s">>, <<"J","a","m","e","s">>, <<"1"," ","P","e","t","e","r">>,
    <<"2"," ","P","e","t","e","r">>, <<"1"," ","J","o","h","n">>, <<"2"," ","J","o","h","n">>,
    <<"3"," ","J","o","h","n">>, <<"J","u","d","e">>,
    <<"R","e","v","e","l","a","t","i","o","n">>
  >>

BOOK_COUNT ==
  <<
    0, 50, 40, 27, 36, 34, 24, 21, 4, 31, 24, 22, 25, 29, 36, 10, 13, 10, 42, 150, 31, 12, 8,
    66, 52, 5, 48, 12, 14, 3, 9, 1, 4, 7, 3, 3, 3, 2, 14, 4, 28, 16, 24, 21, 28, 16, 16, 13, 6,
    6, 4, 4, 5, 3, 6, 4, 3, 1, 13, 5, 5, 3, 5, 1, 1, 1, 22
  >>

BOOK_INDEX ==
  {
    <<<<"1","C","h">>, 13>>, <<<<"1"," ","C","h","r">>, 13>>, <<<<"1","C","h","r">>, 13>>,
    <<<<"1","C","h","r","o","n","i","c","l","e","s">>, 13>>,
    <<<<"1"," ","C","h","r","o","n","i","c","l","e","s">>, 13>>, <<<<"1","C","o">>, 46>>,
    <<<<"1"," ","C","o","r">>, 46>>, <<<<"1","C","o","r">>, 46>>,
    <<<<"1","C","o","r","i","n","t","h","i","a","n","s">>, 46>>,
    <<<<"1"," ","C","o","r","i","n","t","h","i","a","n","s">>, 46>>, <<<<"1","J">>, 62>>,
    <<<<"1","J","n">>, 62>>, <<<<"1","J","o">>, 62>>, <<<<"1"," ","J","o","h","n">>, 62>>,
    <<<<"1","J","o","h","n">>, 62>>, <<<<"1","K">>, 11>>, <<<<"1","K","g","s">>, 11>>,
    <<<<"1","K","i">>, 11>>, <<<<"1"," ","K","i","n">>, 11>>,
    <<<<"1","K","i","n","g","s">>, 11>>, <<<<"1"," ","K","i","n","g","s">>, 11>>,
    <<<<"1","P">>, 60>>, <<<<"1","P","e">>, 60>>, <<<<"1"," ","P","e","t">>, 60>>,
    <<<<"1","P","e","t">>, 60>>, <<<<"1","P","e","t","e","r">>, 60>>,
    <<<<"1"," ","P","e","t","e","r">>, 60>>, <<<<"1","S">>, 9>>, <<<<"1","S","a">>, 9>>,
    <<<<"1"," ","S","a","m">>, 9>>, <<<<"1","S","a","m">>, 9>>,
    <<<<"1","S","a","m","u","e","l">>, 9>>, <<<<"1"," ","S","a","m","u","e","l">>, 9>>,
    <<<<"1","T","h">>, 52>>, <<<<"1"," ","T","h">>, 52>>,
    <<<<"1"," ","T","h","e","s","s">>, 52>>, <<<<"1","T","h","e","s","s">>, 52>>,
    <<<<"1","T","h","e","s","s","a","l","o","n","i","a","n","s">>, 52>>,
    <<<<"1"," ","T","h","e","s","s","a","l","o","n","i","a","n","s">>, 52>>,
    <<<<"1","T","i">>, 54>>, <<<<"1"," ","T","i","m">>, 54>>, <<<<"1","T","i","m">>, 54>>,
    <<<<"1","T","i","m","o","t","h","y">>, 54>>,
    <<<<"1"," ","T","i","m","o","t","h","y">>, 54>>, <<<<"1","T","m">>, 54>>,
    <<<<"2","C","h">>, 14>>, <<<<"2"," ","C","h","r">>, 14>>, <<<<"2","C","h","r">>, 14>>,
    <<<<"2","C","h","r","o","n","i","c","l","e","s">>, 14>>,
    <<<<"2"," ","C","h","r","o","n","i","c","l","e","s">>, 14>>, <<<<"2","C","o">>, 47>>,
    <<<<"2"," ","C","o","r">>, 47>>, <<<<"2","C","o","r">>, 47>>,
    <<<<"2","C","o","r","i","n","t","h","i","a","n","s">>, 47>>,
    <<<<"2"," ","C","o","r","i","n","t","h","i","a","n","s">>, 47>>, <<<<"2","J">>, 63>>,
    <<<<"2","J","n">>, 63>>, <<<<"2","J","o">>, 63>>, <<<<"2"," ","J","o","h","n">>, 63>>,
    <<<<"2","J","o","h","n">>, 63>>, <<<<"2","K">>, 12>>, <<<<"2","K","g","s">>, 12>>,
    <<<<"2","K","i">>, 12>>, <<<<"2"," ","K","i","n">>, 12>>,
    <<<<"2","K","i","n","g","s">>, 12>>, <<<<"2"," ","K","i","n","g","s">>, 12>>,
    <<<<"2","P">>, 61>>, <<<<"2","P","e">>, 61>>, <<<<"2"," ","P","e","t">>, 61>>,
    <<<<"2","P","e","t">>, 61>>, <<<<"2","P","e","t","e","r">>, 61>>,
    <<<<"2"," ","P","e","t","e","r">>, 61>>, <<<<"2","S">>, 10>>, <<<<"2","S","a">>, 10>>,
    <<<<"2"," ","S","a","m">>, 10>>, <<<<"2","S","a","m">>, 10>>,
    <<<<"2","S","a","m","u","e","l">>, 10>>, <<<<"2"," ","S","a","m","u","e","l">>, 10>>,
    <<<<"2","T","h">>, 53>>, <<<<"2"," ","T","h">>, 53>>,
    <<<<"2"," ","T","h","e","s","s">>, 53>>, <<<<"2","T","h","e","s","s">>, 53>>,
    <<<<"2","T","h","e","s","s","a","l","o","n","i","a","n","s">>, 53>>,
    <<<<"2"," ","T","h","e","s","s","a","l","o","n","i","a","n","s">>, 53>>,
    <<<<"2","T","i">>, 55>>, <<<<"2"," ","T","i","m">>, 55>>, <<<<"2","T","i","m">>, 55>>,
    <<<<"2","T","i","m","o","t","h","y">>, 55>>,
    <<<<"2"," ","T","i","m","o","t","h","y">>, 55>>, <<<<"2","T","m">>, 55>>,
    <<<<"3","J">>, 64>>, <<<<"3","J","n">>, 64>>, <<<<"3","J","o">>, 64>>,
    <<<<"3"," ","J","o","h","n">>, 64>>, <<<<"3","J","o","h","n">>, 64>>, <<<<"A","c">>, 44>>,
    <<<<"A","c","t">>, 44>>, <<<<"A","c","t","s">>, 44>>, <<<<"A","m">>, 30>>,
    <<<<"A","m","o">>, 30>>, <<<<"A","m","o","s">>, 30>>, <<<<"C","s">>, 51>>,
    <<<<"C","o","l">>, 51>>, <<<<"C","o","l","o","s","s","i","a","n","s">>, 51>>,
    <<<<"D","a">>, 27>>, <<<<"D","a","n">>, 27>>, <<<<"D","a","n","i","e","l">>, 27>>,
    <<<<"D","e">>, 5>>, <<<<"D","e","u">>, 5>>, <<<<"D","e","u","t">>, 5>>,
    <<<<"D","e","u","t","e","r","o","n","o","m","y">>, 5>>, <<<<"D","n">>, 27>>,
    <<<<"D","t">>, 5>>, <<<<"E","c">>, 21>>, <<<<"E","c","c">>, 21>>,
    <<<<"E","c","c","l">>, 21>>, <<<<"E","c","c","l","e","s","i","a","s","t","e","s">>, 21>>,
    <<<<"E","p">>, 49>>, <<<<"E","p","h">>, 49>>,
    <<<<"E","p","h","e","s","i","a","n","s">>, 49>>, <<<<"E","s">>, 17>>,
    <<<<"E","s","t">>, 17>>, <<<<"E","s","t","h">>, 17>>, <<<<"E","s","t","h","e","r">>, 17>>,
    <<<<"E","x">>, 2>>, <<<<"E","x","o">>, 2>>, <<<<"E","x","o","d">>, 2>>,
    <<<<"E","x","o","d","u","s">>, 2>>, <<<<"E","z","e">>, 26>>, <<<<"E","z","e","k">>, 26>>,
    <<<<"E","z","e","k","i","e","l">>, 26>>, <<<<"E","z","r">>, 15>>,
    <<<<"E","z","r","a">>, 15>>, <<<<"G","a">>, 48>>, <<<<"G","a","l">>, 48>>,
    <<<<"G","a","l","a","t","i","a","n","s">>, 48>>, <<<<"G","e">>, 1>>,
    <<<<"G","e","n">>, 1>>, <<<<"G","e","n","e","s","i","s">>, 1>>, <<<<"G","n">>, 1>>,
    <<<<"H","a","b">>, 35>>, <<<<"H","a","b","a","k","k","u","k">>, 35>>,
    <<<<"H","a","g">>, 37>>, <<<<"H","a","g","g","a","i">>, 37>>, <<<<"H","b">>, 58>>,
    <<<<"H","e","b">>, 58>>, <<<<"H","e","b","r","e","w","s">>, 58>>, <<<<"H","g">>, 37>>,
    <<<<"H","o">>, 28>>, <<<<"H","o","s">>, 28>>, <<<<"H","o","s","e","a">>, 28>>,
    <<<<"H","s">>, 28>>, <<<<"I","s">>, 23>>, <<<<"I","s","a">>, 23>>,
    <<<<"I","s","a","i","a","h">>, 23>>, <<<<"J","a","m">>, 59>>,
    <<<<"J","a","m","e","s">>, 59>>, <<<<"J","a","s">>, 59>>, <<<<"J","b">>, 18>>,
    <<<<"J","d">>, 65>>, <<<<"J","d","g">>, 7>>, <<<<"J","e","r">>, 24>>,
    <<<<"J","e","r","e","m","i","a","h">>, 24>>, <<<<"J","g">>, 7>>, <<<<"J","l">>, 29>>,
    <<<<"J","m">>, 59>>, <<<<"J","n">>, 43>>, <<<<"J","n","h">>, 32>>, <<<<"J","o","b">>, 18>>,
    <<<<"J","o","e">>, 29>>, <<<<"J","o","e","l">>, 29>>, <<<<"J","o","h">>, 43>>,
    <<<<"J","o","h","n">>, 43>>, <<<<"J","o","n">>, 32>>, <<<<"J","o","n","a","h">>, 32>>,
    <<<<"J","o","s">>, 6>>, <<<<"J","o","s","h">>, 6>>, <<<<"J","o","s","h","u","a">>, 6>>,
    <<<<"J","r">>, 24>>, <<<<"J","u","d">>, 65>>, <<<<"J","u","d","e">>, 65>>,
    <<<<"J","u","d","g">>, 7>>, <<<<"J","u","d","g","e","s">>, 7>>, <<<<"L","a">>, 25>>,
    <<<<"L","a","m">>, 25>>, <<<<"L","a","m","e","n","t","a","t","i","o","n","s">>, 25>>,
    <<<<"L","e">>, 3>>, <<<<"L","e","v">>, 3>>, <<<<"L","e","v","i","t","i","c","u","s">>, 3>>,
    <<<<"L","k">>, 42>>, <<<<"L","m">>, 25>>, <<<<"L","u">>, 42>>, <<<<"L","u","k">>, 42>>,
    <<<<"L","u","k","e">>, 42>>, <<<<"L","v">>, 3>>, <<<<"M","a","l">>, 39>>,
    <<<<"M","a","l","a","c","h","i">>, 39>>, <<<<"M","a","r">>, 41>>,
    <<<<"M","a","r","k">>, 41>>, <<<<"M","a","t">>, 40>>, <<<<"M","a","t","t">>, 40>>,
    <<<<"M","a","t","t","h","e","w">>, 40>>, <<<<"M","i">>, 33>>, <<<<"M","i","c">>, 33>>,
    <<<<"M","i","c","a","h">>, 33>>, <<<<"M","k">>, 41>>, <<<<"M","r">>, 41>>,
    <<<<"M","t">>, 40>>, <<<<"N","a">>, 34>>, <<<<"N","a","h">>, 34>>,
    <<<<"N","a","h","u","m">>, 34>>, <<<<"N","e">>, 16>>, <<<<"N","e","h">>, 16>>,
    <<<<"N","e","h","e","m","i","a","h">>, 16>>, <<<<"N","m">>, 4>>, <<<<"N","o">>, 4>>,
    <<<<"N","u">>, 4>>, <<<<"N","u","m">>, 4>>, <<<<"N","u","m","b","e","r","s">>, 4>>,
    <<<<"O","b">>, 31>>, <<<<"O","b","a">>, 31>>, <<<<"O","b","a","d">>, 31>>,
    <<<<"O","b","a","d","i","a","h">>, 31>>, <<<<"P","h","i">>, 50>>,
    <<<<"P","h","i","l">>, 50>>, <<<<"P","h","i","l","e","m">>, 57>>,
    <<<<"P","h","i","l","e","m","o","n">>, 57>>,
    <<<<"P","h","i","l","i","p","p","i","a","n","s">>, 50>>, <<<<"P","h","l","m">>, 57>>,
    <<<<"P","h","m">>, 57>>, <<<<"P","h","p">>, 50>>, <<<<"P","m">>, 57>>, <<<<"P","p">>, 50>>,
    <<<<"P","r">>, 20>>, <<<<"P","r","o">>, 20>>, <<<<"P","r","o","v">>, 20>>,
    <<<<"P","r","o","v","e","r","b","s">>, 20>>, <<<<"P","s">>, 19>>, <<<<"P","s","a">>, 19>>,
    <<<<"P","s","a","l","m">>, 19>>, <<<<"P","s","a","l","m","s">>, 19>>, <<<<"R","e">>, 66>>,
    <<<<"R","e","v">>, 66>>, <<<<"R","e","v","e","l","a","t","i","o","n">>, 66>>,
    <<<<"R","o">>, 45>>, <<<<"R","o","m">>, 45>>, <<<<"R","o","m","a","n","s">>, 45>>,
    <<<<"R","m">>, 45>>, <<<<"R","t">>, 8>>, <<<<"R","u">>, 8>>, <<<<"R","u","t">>, 8>>,
    <<<<"R","u","t","h">>, 8>>, <<<<"R","v">>, 66>>, <<<<"S","g">>, 22>>, <<<<"S","o">>, 22>>,
    <<<<"S","o","n">>, 22>>, <<<<"S","o","n","g">>, 22>>,
    <<<<"S","o","n","g"," ","o","f"," ","S","o","l","o","m","o","n">>, 22>>,
    <<<<"S","o","n","g"," ","o","f"," ","S","o","n","g","s">>, 22>>, <<<<"S","S">>, 22>>,
    <<<<"T","i","t">>, 56>>, <<<<"T","i","t","u","s">>, 56>>, <<<<"T","t">>, 56>>,
    <<<<"Z","c">>, 38>>, <<<<"Z","e","c">>, 38>>, <<<<"Z","e","c","h">>, 38>>,
    <<<<"Z","e","c","h","a","r","i","a","h">>, 38>>, <<<<"Z","e","p">>, 36>>,
    <<<<"Z","e","p","h">>, 36>>, <<<<"Z","e","p","h","a","n","i","a","h">>, 36>>,
    <<<<"Z","p">>, 36>>, <<<<"U+4E66">>, 6>>, <<<<"U+4E9A">>, 38>>, <<<<"U+4E9E">>, 38>>,
    <<<<"U+4EE3","U+4E0A">>, 13>>, <<<<"U+4EE3","U+4E0B">>, 14>>,
    <<<<"U+4EE5","U+5F17","U+6240","U+4E66">>, 49>>,
    <<<<"U+4EE5","U+5F17","U+6240","U+66F8">>, 49>>,
    <<<<"U+4EE5","U+65AF","U+5E16","U+8A18">>, 17>>,
    <<<<"U+4EE5","U+65AF","U+5E16","U+8BB0">>, 17>>,
    <<<<"U+4EE5","U+65AF","U+62C9","U+8A18">>, 15>>,
    <<<<"U+4EE5","U+65AF","U+62C9","U+8BB0">>, 15>>,
    <<<<"U+4EE5","U+897F","U+7D50","U+66F8">>, 26>>,
    <<<<"U+4EE5","U+897F","U+7ED3","U+4E66">>, 26>>,
    <<<<"U+4EE5","U+8CFD","U+4E9E","U+66F8">>, 23>>,
    <<<<"U+4EE5","U+8D5B","U+4E9A","U+4E66">>, 23>>, <<<<"U+4F20">>, 21>>,
    <<<<"U+4F20","U+9053","U+4E66">>, 21>>, <<<<"U+4F2F">>, 18>>, <<<<"U+4F46">>, 27>>,
    <<<<"U+4F46","U+4EE5","U+7406","U+4E66">>, 27>>,
    <<<<"U+4F46","U+4EE5","U+7406","U+66F8">>, 27>>, <<<<"U+4F55">>, 28>>,
    <<<<"U+4F55","U+897F","U+963F","U+4E66">>, 28>>,
    <<<<"U+4F55","U+897F","U+963F","U+66F8">>, 28>>,
    <<<<"U+4F7F","U+5F92","U+884C","U+4F20">>, 44>>,
    <<<<"U+4F7F","U+5F92","U+884C","U+50B3">>, 44>>, <<<<"U+4F86">>, 58>>,
    <<<<"U+4FC4">>, 31>>, <<<<"U+4FC4","U+5DF4","U+5E95","U+4E9A","U+4E66">>, 31>>,
    <<<<"U+4FC4","U+5DF4","U+5E95","U+4E9E","U+66F8">>, 31>>, <<<<"U+50B3">>, 21>>,
    <<<<"U+50B3","U+9053","U+66F8">>, 21>>, <<<<"U+51FA">>, 2>>,
    <<<<"U+51FA","U+57C3","U+53CA","U+8A18">>, 2>>,
    <<<<"U+51FA","U+57C3","U+53CA","U+8BB0">>, 2>>,
    <<<<"U+5217","U+738B","U+7D00","U+4E0A">>, 11>>,
    <<<<"U+5217","U+738B","U+7D00","U+4E0B">>, 12>>,
    <<<<"U+5217","U+738B","U+7EAA","U+4E0A">>, 11>>,
    <<<<"U+5217","U+738B","U+7EAA","U+4E0B">>, 12>>, <<<<"U+521B">>, 1>>,
    <<<<"U+521B","U+4E16","U+8BB0">>, 1>>, <<<<"U+5229">>, 3>>,
    <<<<"U+5229","U+672A","U+8A18">>, 3>>, <<<<"U+5229","U+672A","U+8BB0">>, 3>>,
    <<<<"U+5275">>, 1>>, <<<<"U+5275","U+4E16","U+8A18">>, 1>>, <<<<"U+52A0">>, 48>>,
    <<<<"U+52A0","U+62C9","U+592A","U+4E66">>, 48>>,
    <<<<"U+52A0","U+62C9","U+592A","U+66F8">>, 48>>,
    <<<<"U+5386","U+4EE3","U+5FD7","U+4E0A">>, 13>>,
    <<<<"U+5386","U+4EE3","U+5FD7","U+4E0B">>, 14>>, <<<<"U+53EF">>, 41>>,
    <<<<"U+542F">>, 66>>, <<<<"U+542F","U+793A","U+5F55">>, 66>>, <<<<"U+54C0">>, 25>>,
    <<<<"U+54C8">>, 35>>, <<<<"U+54C8","U+5DF4","U+8C37","U+4E66">>, 35>>,
    <<<<"U+54C8","U+5DF4","U+8C37","U+66F8">>, 35>>, <<<<"U+54C8","U+8A72","U+66F8">>, 37>>,
    <<<<"U+54C8","U+8BE5","U+4E66">>, 37>>,
    <<<<"U+54E5","U+6797","U+591A","U+524D","U+4E66">>, 46>>,
    <<<<"U+54E5","U+6797","U+591A","U+524D","U+66F8">>, 46>>,
    <<<<"U+54E5","U+6797","U+591A","U+540E","U+4E66">>, 47>>,
    <<<<"U+54E5","U+6797","U+591A","U+5F8C","U+66F8">>, 47>>, <<<<"U+555F">>, 66>>,
    <<<<"U+555F","U+793A","U+9304">>, 66>>, <<<<"U+58EB">>, 7>>,
    <<<<"U+58EB","U+5E08","U+8BB0">>, 7>>, <<<<"U+58EB","U+5E2B","U+8A18">>, 7>>,
    <<<<"U+591A">>, 56>>, <<<<"U+592A">>, 40>>, <<<<"U+5C3C">>, 16>>,
    <<<<"U+5C3C","U+5E0C","U+7C73","U+8A18">>, 16>>,
    <<<<"U+5C3C","U+5E0C","U+7C73","U+8BB0">>, 16>>,
    <<<<"U+5E0C","U+4F2F","U+4F86","U+66F8">>, 58>>,
    <<<<"U+5E0C","U+4F2F","U+6765","U+4E66">>, 58>>, <<<<"U+5E16","U+524D">>, 52>>,
    <<<<"U+5E16","U+540E">>, 53>>, <<<<"U+5E16","U+5F8C">>, 53>>,
    <<<<"U+5E16","U+6492","U+7F57","U+5C3C","U+8FE6">>, 52>>,
    <<<<"U+5E16","U+6492","U+7F85","U+5C3C","U+8FE6">>, 53>>, <<<<"U+5F17">>, 49>>,
    <<<<"U+5F25">>, 33>>, <<<<"U+5F25","U+8FE6","U+4E66">>, 33>>, <<<<"U+5F4C">>, 33>>,
    <<<<"U+5F4C","U+8FE6","U+66F8">>, 33>>, <<<<"U+5F7C","U+524D">>, 60>>,
    <<<<"U+5F7C","U+540E">>, 61>>, <<<<"U+5F7C","U+5F8C">>, 61>>,
    <<<<"U+5F7C","U+5F97","U+524D","U+4E66">>, 60>>,
    <<<<"U+5F7C","U+5F97","U+524D","U+66F8">>, 60>>,
    <<<<"U+5F7C","U+5F97","U+540E","U+4E66">>, 61>>,
    <<<<"U+5F7C","U+5F97","U+5F8C","U+66F8">>, 61>>, <<<<"U+5F92">>, 44>>, <<<<"U+5F97">>, 8>>,
    <<<<"U+62C9">>, 15>>, <<<<"U+62FF">>, 32>>, <<<<"U+63D0","U+524D">>, 54>>,
    <<<<"U+63D0","U+540E">>, 55>>, <<<<"U+63D0","U+591A","U+4E66">>, 56>>,
    <<<<"U+63D0","U+591A","U+66F8">>, 56>>, <<<<"U+63D0","U+5F8C">>, 55>>,
    <<<<"U+63D0","U+6469","U+592A","U+524D","U+4E66">>, 54>>,
    <<<<"U+63D0","U+6469","U+592A","U+524D","U+66F8">>, 54>>,
    <<<<"U+63D0","U+6469","U+592A","U+540E","U+4E66">>, 55>>,
    <<<<"U+63D0","U+6469","U+592A","U+5F8C","U+66F8">>, 55>>, <<<<"U+6469">>, 30>>,
    <<<<"U+6492","U+4E0A">>, 9>>, <<<<"U+6492","U+4E0B">>, 10>>,
    <<<<"U+6492","U+6BCD","U+8033","U+8A18","U+4E0A">>, 9>>,
    <<<<"U+6492","U+6BCD","U+8033","U+8A18","U+4E0B">>, 10>>,
    <<<<"U+6492","U+6BCD","U+8033","U+8BB0","U+4E0A">>, 9>>,
    <<<<"U+6492","U+6BCD","U+8033","U+8BB0","U+4E0B">>, 10>>,
    <<<<"U+6492","U+8FE6","U+5229","U+4E9A","U+4E66">>, 38>>,
    <<<<"U+6492","U+8FE6","U+5229","U+4E9E","U+66F8">>, 38>>, <<<<"U+65AF">>, 17>>,
    <<<<"U+66F8">>, 6>>, <<<<"U+6765">>, 58>>, <<<<"U+6797","U+524D">>, 46>>,
    <<<<"U+6797","U+540E">>, 47>>, <<<<"U+6797","U+5F8C">>, 47>>, <<<<"U+6B4C">>, 22>>,
    <<<<"U+6B4C","U+7F57","U+897F","U+4E66">>, 51>>,
    <<<<"U+6B4C","U+7F85","U+897F","U+66F8">>, 51>>,
    <<<<"U+7EA6","U+4E66","U+4E9A","U+8BB0">>, 6>>, <<<<"U+7EA6","U+4E8C">>, 63>>,
    <<<<"U+7EA6","U+8D30">>, 63>>, <<<<"U+7EA6","U+4F2F","U+8BB0">>, 18>>,
    <<<<"U+7EA6","U+62FF","U+4E66">>, 32>>, <<<<"U+7EA6","U+73E5","U+4E66">>, 29>>,
    <<<<"U+7EA6","U+7FF0","U+4E00","U+4E66">>, 62>>,
    <<<<"U+7EA6","U+7FF0","U+58F9","U+4E66">>, 62>>,
    <<<<"U+7EA6","U+7FF0","U+4E09","U+4E66">>, 64>>,
    <<<<"U+7EA6","U+7FF0","U+53C1","U+4E66">>, 64>>,
    <<<<"U+7EA6","U+7FF0","U+4E8C","U+4E66">>, 63>>,
    <<<<"U+7EA6","U+7FF0","U+8D30","U+4E66">>, 63>>,
    <<<<"U+7EA6","U+7FF0","U+798F","U+97F3">>, 43>>, <<<<"U+7ED3">>, 26>>,
    <<<<"U+7F57">>, 45>>, <<<<"U+7F57","U+9A6C","U+4E66">>, 45>>, <<<<"U+7F85">>, 45>>,
    <<<<"U+7F85","U+99AC","U+66F8">>, 45>>, <<<<"U+8036">>, 24>>,
    <<<<"U+8036","U+5229","U+7C73","U+4E66">>, 24>>,
    <<<<"U+8036","U+5229","U+7C73","U+54C0","U+6B4C">>, 25>>,
    <<<<"U+8036","U+5229","U+7C73","U+66F8">>, 24>>, <<<<"U+8153">>, 50>>,
    <<<<"U+8153","U+5229","U+9580","U+66F8">>, 57>>,
    <<<<"U+8153","U+5229","U+95E8","U+4E66">>, 57>>,
    <<<<"U+8153","U+7ACB","U+6BD4","U+4E66">>, 50>>,
    <<<<"U+8153","U+7ACB","U+6BD4","U+66F8">>, 50>>, <<<<"U+897F">>, 51>>,
    <<<<"U+897F","U+756A","U+96C5","U+4E66">>, 36>>,
    <<<<"U+897F","U+756A","U+96C5","U+66F8">>, 36>>, <<<<"U+8A69">>, 19>>,
    <<<<"U+8A69","U+7BC7">>, 19>>, <<<<"U+8A72">>, 37>>, <<<<"U+8BD7">>, 19>>,
    <<<<"U+8BD7","U+7BC7">>, 19>>, <<<<"U+8BE5">>, 37>>, <<<<"U+8CFD">>, 23>>,
    <<<<"U+8D5B">>, 23>>, <<<<"U+8DEF">>, 42>>,
    <<<<"U+8DEF","U+52A0","U+798F","U+97F3">>, 42>>, <<<<"U+8DEF","U+5F97","U+8A18">>, 8>>,
    <<<<"U+8DEF","U+5F97","U+8BB0">>, 8>>, <<<<"U+90A3","U+9D3B","U+66F8">>, 34>>,
    <<<<"U+90A3","U+9E3F","U+4E66">>, 34>>, <<<<"U+9580">>, 57>>, <<<<"U+95E8">>, 57>>,
    <<<<"U+963F","U+6469","U+53F8","U+4E66">>, 30>>,
    <<<<"U+963F","U+6469","U+53F8","U+66F8">>, 30>>, <<<<"U+96C5">>, 59>>,
    <<<<"U+96C5","U+5404","U+4E66">>, 59>>, <<<<"U+96C5","U+5404","U+66F8">>, 59>>,
    <<<<"U+96C5","U+6B4C">>, 22>>, <<<<"U+99AC","U+53EF","U+798F","U+97F3">>, 41>>,
    <<<<"U+99AC","U+592A","U+798F","U+97F3">>, 40>>,
    <<<<"U+9A6C","U+53EF","U+798F","U+97F3">>, 41>>,
    <<<<"U+9A6C","U+592A","U+798F","U+97F3">>, 40>>, <<<<"U+9D3B">>, 34>>, <<<<"U+9E3F">>, 34>>
  }

\* the keys of BOOK_INDEX
AliasNames == {e[1] : e \in BOOK_INDEX}

\* BOOK_INDEX.get(name, 0)
BookIndexGet(name) ==
  IF name \in AliasNames
  THEN (CHOOSE e \in BOOK_INDEX : e[1] = name)[2]
  ELSE 0

\* get_book_id with the name looked up lowercased
get_book_id_lowered(name) == BookIndexGet(lower(strip(name)))

get_book_id(name) == BookIndexGet(strip(name))

\* get_book_short with the index one off
get_book_short_shifted(id) ==
  IF 0 <= id /\ id < Len(BOOK_SHORT) - 1 THEN BOOK_SHORT[id + 2] ELSE <<>>

\* BOOK_SHORT is a Python list indexed from 0: BOOK_SHORT[id] is element id + 1
get_book_short(id) ==
  IF 0 <= id /\ id < Len(BOOK_SHORT) THEN BOOK_SHORT[id + 1] ELSE <<>>

\* get_book_english without the lower bound of the guard: a negative id then
\* indexes the Python list from its end
get_book_english_from_end(id) ==
  IF id < Len(BOOK_ENGLISH)
  THEN IF id >= 0 THEN BOOK_ENGLISH[id + 1]
       ELSE IF 0 - id <= Len(BOOK_ENGLISH) THEN BOOK_ENGLISH[Len(BOOK_ENGLISH) + id + 1]
       ELSE <<>>
  ELSE <<>>

get_book_english(id) ==
  IF 0 <= id /\ id < Len(BOOK_ENGLISH) THEN BOOK_ENGLISH[id + 1] ELSE <<>>

get_book_chapter_count(id) ==
  IF 0 <= id /\ id < Len(BOOK_COUNT) THEN BOOK_COUNT[id + 1] ELSE 0

-----------------------------------------------------------------------------
(* Query Classifier: app/utils/query_parser.py                             *)

None == [type |-> "none"]

\* [^\d\s:] : a character of the book name in the first pattern
IsNameChar(c) == ~IsDigit(c) /\ ~IsSpace(c) /\ c # ":"
\* [^\d:] : a character of the book name in the second pattern
IsLooseNameChar(c) == ~IsDigit(c) /\ c # ":"

\* position just past the \d* that starts at i
DigitsEnd(s, i) == RunEnd(s, i, IsDigit)

NoTail == [ok |-> FALSE, group2 |-> <<>>, group3 |-> <<>>, group4 |-> <<>>]

\* the groups of (\d+):(\d+)(?:-(\d+))?$ at position i, where the first run of
\* digits ends at e1, the run after the colon at e2 and the run after the dash at
\* e3.  group4 is <<>> when the optional range is absent.
TailGroups(s, i, e1, e2, e3) ==
  IF e1 > i /\ e1 <= Len(s) /\ s[e1] = ":" /\ e2 > e1 + 1
  THEN IF e2 = Len(s) + 1
       THEN [ok |-> TRUE, group2 |-> Slice(s, i, e1), group3 |-> Slice(s, e1 + 1, e2),
             group4 |-> <<>>]
       ELSE IF s[e2] = "-" /\ e3 > e2 + 1 /\ e3 = Len(s) + 1
       THEN [ok |-> TRUE, group2 |-> Slice(s, i, e1), group3 |-> Slice(s, e1 + 1, e2),
             group4 |-> Slice(s, e2 + 1, e3)]
       ELSE NoTail
  ELSE NoTail

\* (\d+):(\d+)(?:-(\d+))?$ matched at position i.  The string is stripped, so $
\* matches at its end only.
MatchTail(s, i) ==
  TailGroups(s, i, DigitsEnd(s, i), DigitsEnd(s, DigitsEnd(s, i) + 1),
             DigitsEnd(s, DigitsEnd(s, DigitsEnd(s, i) + 1) + 1))

NoMatch == [ok |-> FALSE, group1 |-> <<>>, group2 |-> <<>>, group3 |-> <<>>, group4 |-> <<>>]

\* the match whose name is the first n - 1 characters (one at least) and whose
\* numbers are those of tail
NamedMatch(s, n, tail) ==
  IF n > 1 /\ tail.ok
  THEN [ok |-> TRUE, group1 |-> Slice(s, 1, n), group2 |-> tail.group2,
        group3 |-> tail.group3, group4 |-> tail.group4]
  ELSE NoMatch

\* re.match(r'^([^\d\s:]+)\s*(\d+):(\d+)(?:-(\d+))?$', s, re.IGNORECASE)
MatchSpaced(s) ==
  NamedMatch(s, RunEnd(s, 1, IsNameChar),
             MatchTail(s, RunEnd(s, RunEnd(s, 1, IsNameChar), IsSpace)))

\* re.match(r'^([^\d:]+)(\d+):(\d+)(?:-(\d+))?$', s, re.IGNORECASE)
MatchJoined(s) ==
  NamedMatch(s, RunEnd(s, 1, IsLooseNameChar), MatchTail(s, RunEnd(s, 1, IsLooseNameChar)))

\* the lookups without the third one, the name with its trailing .,; removed
FirstFoundNoSuffixStep(exact, lowered, unsuffixed) ==
  IF exact # 0 THEN exact ELSE lowered

\* "if not book_id" twice: the first of the three lookups that finds a book
FirstFound(exact, lowered, unsuffixed) ==
  IF exact # 0 THEN exact ELSE IF lowered # 0 THEN lowered ELSE unsuffixed

\* the three lookups of the loop body: exact, lowercased, trailing .,; removed
ResolveName(name) ==
  FirstFound(get_book_id(name), get_book_id(lower(name)),
             get_book_id(rstrip(name, {".", ",", ";"})))

\* "if book_id: return {...}"
ReferenceIfFound(id, chapter, verse, verse_end) ==
  IF id # 0
  THEN [type |-> "reference", book_id |-> id, chapter |-> chapter,
        verse |-> verse, verse_end |-> verse_end]
  ELSE None

\* the reference whatever the id
ReferenceAlways(id, chapter, verse, verse_end) ==
  [type |-> "reference", book_id |-> id, chapter |-> chapter,
   verse |-> verse, verse_end |-> verse_end]

\* the body of the loop for one pattern with the "if book_id" test left out
TryPatternUnresolved(m) ==
  IF m.ok
  THEN ReferenceAlways(ResolveName(strip(m.group1)), int(m.group2), int(m.group3),
                       IF m.group4 # <<>> THEN int(m.group4) ELSE int(m.group3))
  ELSE None

\* the body of the loop for one pattern: a reference when the pattern matches
\* and its name resolves, None (go on with the next pattern) otherwise
TryPattern(m) ==
  IF m.ok
  THEN ReferenceIfFound(ResolveName(strip(m.group1)), int(m.group2), int(m.group3),
                        IF m.group4 # <<>> THEN int(m.group4) ELSE int(m.group3))
  ELSE None

\* the loop over the patterns list: the first pattern that returns decides
FirstReference(r1, r2) == IF r1 # None THEN r1 ELSE r2

\* parse_verse_reference returning a reference whatever the name resolves to
parse_verse_reference_unresolved(q) ==
  FirstReference(TryPatternUnresolved(MatchSpaced(strip(q))),
                 TryPatternUnresolved(MatchJoined(strip(q))))

parse_verse_reference(q) ==
  FirstReference(TryPattern(MatchSpaced(strip(q))), TryPattern(MatchJoined(strip(q))))

KeywordsOf(kept) ==
  [type |-> "keyword", keywords |-> [i \in 1..Len(kept) |-> strip(kept[i])]]

\* [q.strip() for q in query.split() if q.strip()]
parse_keyword_query(q) ==
  KeywordsOf(SelectSeq(split(q), LAMBDA t : strip(t) # <<>>))

\* "if result: return result", else the keyword query
ReferenceOrKeywords(ref, q) == IF ref # None THEN ref ELSE parse_keyword_query(q)

parse_query(q) == ReferenceOrKeywords(parse_verse_reference(q), q)

-----------------------------------------------------------------------------
(* Text Renderer: app/utils/text_utils.py                                  *)

\* the replacement-character sequence, listed twice in replacement_chars
REPLACEMENT_CHAR == <<"U+00EF","U+00BF","U+00BD">>
TAG_FR == <<"<","F","R",">">>
TAG_Fr == <<"<","F","r",">">>
TAG_FO == <<"<","F","O",">">>
TAG_Fo == <<"<","F","o",">">>
TAG_FI == <<"<","F","I",">">>
TAG_Fi == <<"<","F","i",">">>
TAG_RF == <<"<","R","F",">">>
TAG_Rf == <<"<","R","f",">">>
SPAN_RED ==
  <<
    "<","s","p","a","n"," ","s","t","y","l","e","=","\"","c","o","l","o","r",":","r","e","d",
    ";","\"",">"
  >>
SPAN_ORANGE ==
  <<
    "<","s","p","a","n"," ","s","t","y","l","e","=","\"","c","o","l","o","r",":","o","r","a",
    "n","g","e",";","\"",">"
  >>
SPAN_FOOTNOTE ==
  <<
    "<","s","p","a","n"," ","c","l","a","s","s","=","\"","f","o","o","t","n","o","t","e","\"",
    ">"
  >>
SPAN_CLOSE == <<"<","/","s","p","a","n",">">>
ITALIC_OPEN == <<"<","i",">">>
ITALIC_CLOSE == <<"<","/","i",">">>
\* the literal head of the font pattern
FONT_COLOR == <<"<","f","o","n","t"," ","c","o","l","o","r","=">>
FONT_COLOR_QUOTED == <<"<","f","o","n","t"," ","c","o","l","o","r","=","\"">>
FONT_COLOR_END == <<"\"",">">>
SUP_OPEN == <<"<","s","u","p",">">>
SUP_CLOSE == <<"<","/","s","u","p",">">>
LINK_GREEK ==
  <<
    " ","(","<","a"," ","h","r","e","f","=","\"","h","t","t","p",":","/","/","b","i","b","l",
    "e",".","f","h","l",".","n","e","t","/","n","e","w","/","s",".","p","h","p","?","N","=","0",
    "&","k","="
  >>
LINK_HEBREW ==
  <<
    " ","(","<","a"," ","h","r","e","f","=","\"","h","t","t","p",":","/","/","b","i","b","l",
    "e",".","f","h","l",".","n","e","t","/","n","e","w","/","s",".","p","h","p","?","N","=","1",
    "&","k","="
  >>
LINK_TARGET == <<"\""," ","t","a","r","g","e","t","=","\"","_","b","l","a","n","k","\"",">">>
LINK_CLOSE == <<"<","/","a",">",")">>
STRONG_OPEN == <<"<","s","t","r","o","n","g",">">>
STRONG_CLOSE == <<"<","/","s","t","r","o","n","g",">">>

\* the value of the queries argument when it is None
NoQueries == <<>>

(* re.sub(pattern, repl, s).  M[i] describes the match of the pattern that    *)
(* starts at position i of s: M[i].end is the position just past it (0 when   *)
(* the pattern does not match there) and M[i].repl the expanded replacement.  *)
(* re.sub takes the leftmost match at or after the current position, writes   *)
(* its replacement and goes on from the end of the match; every pattern here  *)
(* matches at least one character.                                            *)
RECURSIVE SubFrom(_, _, _)
SubFrom(s, M, pos) ==
  IF \E i \in pos..Len(s) : M[i].end # 0
  THEN LET i == CHOOSE p \in pos..Len(s) :
                  M[p].end # 0 /\ \A k \in pos..(p-1) : M[k].end = 0
       IN  Slice(s, pos, i) \o M[i].repl \o SubFrom(s, M, M[i].end)
  ELSE Slice(s, pos, Len(s) + 1)

Miss == [end |-> 0, repl |-> <<>>]

\* replacement_chars holds the same three-character sequence twice, so the
\* loop removes its occurrences in two passes
fix_text_encoding(t) ==
  IF t = <<>> THEN t
  ELSE replace(replace(t, REPLACEMENT_CHAR, <<>>), REPLACEMENT_CHAR, <<>>)

\* [^>\s"`] : a character of an unquoted colour value (the backquote is U+0060)
IsColorChar(c) == c # ">" /\ ~IsSpace(c) /\ c # "\"" /\ c # "U+0060"

\* <font color=([^>\s"`]+)> under re.IGNORECASE, at position i
FontMatch(s, i) ==
  LET a == i + Len(FONT_COLOR)
      v == RunEnd(s, a, IsColorChar)
  IN  IF HasAtFold(s, i, FONT_COLOR) /\ v > a /\ v <= Len(s) /\ s[v] = ">"
      THEN [end |-> v + 1, repl |-> FONT_COLOR_QUOTED \o Slice(s, a, v) \o FONT_COLOR_END]
      ELSE Miss

FixFontColor(s) == SubFrom(s, [i \in 1..Len(s) |-> FontMatch(s, i)], 1)

process_formatting_tags(t) ==
  LET t1 == replace(t,  TAG_FR, SPAN_RED)
      t2 == replace(t1, TAG_Fr, SPAN_CLOSE)
      t3 == replace(t2, TAG_FO, SPAN_ORANGE)
      t4 == replace(t3, TAG_Fo, SPAN_CLOSE)
      t5 == replace(t4, TAG_FI, ITALIC_OPEN)
      t6 == replace(t5, TAG_Fi, ITALIC_CLOSE)
      t7 == replace(t6, TAG_RF, SPAN_FOOTNOTE)
      t8 == replace(t7, TAG_Rf, SPAN_CLOSE)
  IN  FixFontColor(t8)

\* \d{1,4}[a-z]?> under re.IGNORECASE, at position p: the digits, the suffix and
\* the position just past '>' (end = 0 when it does not match)
NoCode == [end |-> 0, num |-> <<>>, suffix |-> <<>>]
CodeTail(s, p) ==
  LET e == RunEnd(s, p, IsDigit)
  IN  IF e - p < 1 \/ e - p > 4 \/ e > Len(s) THEN NoCode
      ELSE IF s[e] = ">"
      THEN [end |-> e + 1, num |-> Slice(s, p, e), suffix |-> <<>>]
      ELSE IF IsLetter(s[e]) /\ e + 1 <= Len(s) /\ s[e + 1] = ">"
      THEN [end |-> e + 2, num |-> Slice(s, p, e), suffix |-> <<s[e]>>]
      ELSE NoCode

IsWH(c) == LowerChar(c) \in {"w", "h"}
IsGH(c) == LowerChar(c) \in {"g", "h"}

\* <[WH]?[GH]\d{1,4}[a-z]?> under re.IGNORECASE, at position i: the position just
\* past the tag, 0 when it does not match.  The optional [WH] is tried first.
TagEnd(s, i) ==
  IF ~(i >= 1 /\ i <= Len(s) /\ s[i] = "<") THEN 0
  ELSE IF i + 2 <= Len(s) /\ IsWH(s[i + 1]) /\ IsGH(s[i + 2]) /\ CodeTail(s, i + 3).end # 0
  THEN CodeTail(s, i + 3).end
  ELSE IF i + 1 <= Len(s) /\ IsGH(s[i + 1])
  THEN CodeTail(s, i + 2).end
  ELSE 0

\* [^\s<>] : a character of the annotated word
IsWordChar(c) == ~IsSpace(c) /\ c # "<" /\ c # ">"

\* the replacement template of process_strongs_codes: \1 (<a ...k=\2" ...>L\2\3</a>)
StrongsLink(word, link, label, code) ==
  word \o link \o code.num \o LINK_TARGET \o <<label>> \o code.num \o code.suffix
       \o LINK_CLOSE

\* ([^\s<>]+)<WG(\d{1,4})([a-z]?)> and its <WH form, under re.IGNORECASE, at i
LongFormMatch(s, i, head, link, label) ==
  LET w == RunEnd(s, i, IsWordChar)
      code == CodeTail(s, w + Len(head))
  IN  IF w > i /\ HasAtFold(s, w, head) /\ code.end # 0
      THEN [end |-> code.end, repl |-> StrongsLink(Slice(s, i, w), link, label, code)]
      ELSE Miss

\* (?<!>)([^\s<>]+)<G(\d{1,4})([a-z]?)> and its <H form: the character before
\* the word, in the whole string, is not '>'
ShortFormMatch(s, i, head, link, label) ==
  IF i > 1 /\ s[i - 1] = ">" THEN Miss ELSE LongFormMatch(s, i, head, link, label)

\* re.sub of the <WG or <WH pattern over the whole text
SubLongForm(t, head, link, label) ==
  SubFrom(t, [i \in 1..Len(t) |-> LongFormMatch(t, i, head, link, label)], 1)

\* re.sub of the <G or <H pattern over the whole text
SubShortForm(t, head, link, label) ==
  SubFrom(t, [i \in 1..Len(t) |-> ShortFormMatch(t, i, head, link, label)], 1)

\* the four substitutions in the order of the code: <WG, <WH, <G, <H
process_strongs_codes(t) ==
  SubShortForm(
    SubShortForm(
      SubLongForm(
        SubLongForm(t, <<"<","W","G">>, LINK_GREEK, "G"),
        <<"<","W","H">>, LINK_HEBREW, "H"),
      <<"<","G">>, LINK_GREEK, "G"),
    <<"<","H">>, LINK_HEBREW, "H")

\* position of the first </sup> (any case) at or after t with no line break
\* before it, 0 when there is none: where the lazy (.*?)</sup> stops
SupCloseAfter(s, t) ==
  LET ok(k) == HasAtFold(s, k, SUP_CLOSE) /\ \A n \in t..(k-1) : s[n] # "\n"
  IN  IF \E k \in t..Len(s) : ok(k)
      THEN CHOOSE k \in t..Len(s) : ok(k) /\ \A n \in t..(k-1) : ~ok(n)
      ELSE 0

IsNotLt(c) == c # "<"

\* <sup>([^<]*)<[WH]?[GH]\d{1,4}[a-z]?>(.*?)</sup> -> <sup>\1\2</sup>
SupTagMatch(s, i) ==
  LET a == i + Len(SUP_OPEN)
      j == RunEnd(s, a, IsNotLt)
      t == TagEnd(s, j)
      k == SupCloseAfter(s, t)
  IN  IF HasAtFold(s, i, SUP_OPEN) /\ t # 0 /\ k # 0
      THEN [end |-> k + Len(SUP_CLOSE),
            repl |-> SUP_OPEN \o Slice(s, a, j) \o Slice(s, t, k) \o SUP_CLOSE]
      ELSE Miss

\* <sup>\s*<[WH]?[GH]\d{1,4}[a-z]?>\s*</sup> -> ''
SupOnlyMatch(s, i) ==
  LET j == RunEnd(s, i + Len(SUP_OPEN), IsSpace)
      t == TagEnd(s, j)
      k == RunEnd(s, t, IsSpace)
  IN  IF HasAtFold(s, i, SUP_OPEN) /\ t # 0 /\ HasAtFold(s, k, SUP_CLOSE)
      THEN [end |-> k + Len(SUP_CLOSE), repl |-> <<>>]
      ELSE Miss

\* <[WH]?[GH]\d{1,4}[a-z]?> -> ''
TagMatch(s, i) == [end |-> TagEnd(s, i), repl |-> <<>>]

\* the three substitutions of remove_strongs_codes, each over the whole text
SubSupTag(t) == SubFrom(t, [i \in 1..Len(t) |-> SupTagMatch(t, i)], 1)
SubSupOnly(t) == SubFrom(t, [i \in 1..Len(t) |-> SupOnlyMatch(t, i)], 1)
SubTag(t) == SubFrom(t, [i \in 1..Len(t) |-> TagMatch(t, i)], 1)

remove_strongs_codes(t) == SubTag(SubSupOnly(SubSupTag(t)))

\* one step of the loop: "if query_word:" then the replace
HighlightTerm(t, w) ==
  IF w # <<>> THEN replace(t, w, STRONG_OPEN \o w \o STRONG_CLOSE) ELSE t

\* the loop of highlight_search_terms run from the last term to the first
RECURSIVE highlight_search_terms_backwards(_, _)
highlight_search_terms_backwards(t, qs) ==
  IF qs = <<>> THEN t
  ELSE HighlightTerm(highlight_search_terms_backwards(t, Tail(qs)), Head(qs))

\* highlight_search_terms: the terms in list order, empty terms skipped
RECURSIVE highlight_search_terms(_, _)
highlight_search_terms(t, qs) ==
  IF qs = <<>> THEN t
  ELSE highlight_search_terms(HighlightTerm(t, Head(qs)), Tail(qs))

\* the stages of process_bible_text
StageFormat(t) == process_formatting_tags(fix_text_encoding(t))
StageAnnotate(t, withStrongs) ==
  IF withStrongs THEN process_strongs_codes(t) ELSE remove_strongs_codes(t)
\* "if queries:" is false for None and for the empty list
StageHighlight(t, qs) == IF qs # <<>> THEN highlight_search_terms(t, qs) ELSE t

process_bible_text(t, qs, withStrongs) ==
  StageHighlight(StageAnnotate(StageFormat(t), withStrongs), qs)

-----------------------------------------------------------------------------
(* Like endpoint: app/routers/like.py over app/database.py                 *)

\* the counter written from a value read when the request arrived, instead of
\* being incremented by the store inside the statement
UpdateLikesFromRead(rows, v) ==
  IF v \in DOMAIN rows THEN [rows EXCEPT ![v] = likes_initial[v] + 1] ELSE rows

\* UPDATE bible_books SET likes = likes + 1 WHERE book, chapter, verse = v:
\* the likes column after the statement (no row, no change)
UpdateLikes(rows, v) ==
  IF v \in DOMAIN rows THEN [rows EXCEPT ![v] = @ + 1] ELSE rows

\* SELECT likes FROM bible_books WHERE book, chapter, verse = v, through
\* fetch_one: the row, or None
SelectLikes(rows, v) ==
  IF v \in DOMAIN rows THEN [likes |-> rows[v]] ELSE None

\* like_verse answering a request for a missing verse with a failure
LikeResponseStrict(row) ==
  IF row # None
  THEN [success |-> TRUE, likes |-> row.likes]
  ELSE [success |-> FALSE, error |-> "not found"]

\* "if result: ... else: ..." : the LikeResponse for the row fetch_one returned
LikeResponse(row) ==
  IF row # None
  THEN [success |-> TRUE, likes |-> row.likes]
  ELSE [success |-> TRUE, likes |-> 0]

\* "except Exception as e" : the LikeResponse for a store call that raised
LikeFailure == [success |-> FALSE, error |-> "store"]

-----------------------------------------------------------------------------
(* Search endpoint: app/routers/search.py over app/database.py             *)

\* str(n), as the f-strings format an int
RECURSIVE str(_)
str(n) ==
  IF n < 0 THEN <<"-">> \o str(0 - n)
  ELSE IF n < 10 THEN <<Digits[n + 1]>>
  ELSE str(n \div 10) \o <<Digits[(n % 10) + 1]>>

\* str.split(sep) for a one-character sep: the pieces between the separators
RECURSIVE split_on(_, _)
\* the piece before the separator at position p, then the pieces of the rest
SplitOnAt(s, sep, p) == <<Slice(s, 1, p)>> \o split_on(Slice(s, p + 1, Len(s) + 1), sep)
split_on(s, sep) ==
  IF \A k \in 1..Len(s) : s[k] # sep THEN <<s>>
  ELSE SplitOnAt(s, sep, CHOOSE p \in 1..Len(s) : s[p] = sep /\ \A k \in 1..(p - 1) : s[k] # sep)

\* [x.strip() for x in parts]
StripAll(parts) == [k \in 1..Len(parts) |-> strip(parts[k])]

\* int(s) returns for a string of decimal digits; on the other strings the
\* requests of the model hold it raises ValueError
IntParses(s) == s # <<>> /\ \A k \in 1..Len(s) : IsDigit(s[k])

\* max(a, b)
max(a, b) == IF a >= b THEN a ELSE b

DefaultTranslations == << <<"c","u","v","s">>, <<"c","u","v","t">>, <<"k","j","v">>, <<"n","a","s","b">> >>

\* "if translation: ... else: ..." : the translation codes of the request
TranslationsOf(translation) ==
  IF translation # <<>> THEN StripAll(split_on(translation, ",")) ELSE DefaultTranslations

BIBLE_BOOKS == <<"b","i","b","l","e","_","b","o","o","k","s">>
BIBLE_SEARCH == <<"b","i","b","l","e","_","s","e","a","r","c","h">>
TABLE_PREFIX == <<"b","i","b","l","e","_","b","o","o","k","_">>

table_map ==
  { <<<<"c","u","v","s">>, BIBLE_BOOKS>>, <<<<"c","u","v","t">>, BIBLE_BOOKS>>,
    <<<<"k","j","v">>, <<"b","i","b","l","e","_","b","o","o","k","_","k","j","v">>>>, <<<<"n","a","s","b">>, <<"b","i","b","l","e","_","b","o","o","k","_","n","a","s","b">>>>,
    <<<<"e","s","v">>, <<"b","i","b","l","e","_","b","o","o","k","_","e","s","v">>>>, <<<<"p","i","n","y","i","n">>, BIBLE_BOOKS>> }

txt_column_map ==
  { <<<<"c","u","v","s">>, "txt_cn">>, <<<<"c","u","v","t">>, "txt_tw">>, <<<<"k","j","v">>, "txt_en">>,
    <<<<"p","i","n","y","i","n">>, "txt_py">> }

\* d.get(key, default) on a dictionary written as a set of pairs
DictGet(d, key, default) ==
  IF \E e \in d : e[1] = key THEN (CHOOSE e \in d : e[1] = key)[2] ELSE default

\* table_map.get(trans_lower, f'bible_book_{trans_lower}')
TableOf(trans_lower) == DictGet(table_map, trans_lower, TABLE_PREFIX \o trans_lower)

\* the column the query reads as txt: one of the txt columns of bible_books,
\* Scripture in a translation table
ColumnOf(table, trans_lower) ==
  IF table = BIBLE_BOOKS THEN DictGet(txt_column_map, trans_lower, "txt_cn") ELSE "Scripture"

\* the table and column a translation code is read from
Locate(trans) ==
  [table |-> TableOf(lower(trans)), column |-> ColumnOf(TableOf(lower(trans)), lower(trans))]

\* the keys (book, chapter, verse) a reference query selects
VersesInRange(rows, book, chapter, lo, hi) ==
  {k \in DOMAIN rows : k[1] = book /\ k[2] = chapter /\ k[3] >= lo /\ k[3] <= hi}

\* (book, chapter, verse) order, descending
KeyAfter(a, b) ==
  \/ a[1] > b[1]
  \/ a[1] = b[1] /\ a[2] > b[2]
  \/ a[1] = b[1] /\ a[2] = b[2] /\ a[3] >= b[3]

\* (book, chapter, verse) order
KeyBefore(a, b) ==
  \/ a[1] < b[1]
  \/ a[1] = b[1] /\ a[2] < b[2]
  \/ a[1] = b[1] /\ a[2] = b[2] /\ a[3] <= b[3]

\* ORDER BY book, chapter, verse
RECURSIVE OrderBy(_)
OrderByFrom(keys, first) == <<first>> \o OrderBy(keys \ {first})
OrderBy(keys) ==
  IF keys = {} THEN <<>>
  ELSE OrderByFrom(keys, CHOOSE k \in keys : \A j \in keys : KeyBefore(k, j))

\* row.get('likes', 0)
LikesOf(row) == IF "likes" \in DOMAIN row THEN row.likes ELSE 0

\* the row dictionaries fetch_all returns for the reference query
SelectedRows(rows, column, keys) ==
  [n \in 1..Len(keys) |->
     [book |-> keys[n][1], chapter |-> keys[n][2], verse |-> keys[n][3],
      txt |-> rows[keys[n]][column], likes |-> LikesOf(rows[keys[n]])]]

\* db.fetch_all(query, book_id, chapter, verse_min, verse_max) on a table that
\* exists
FetchVerseRows(tables, loc, book, chapter, lo, hi) ==
  SelectedRows(tables[loc.table], loc.column,
               OrderBy(VersesInRange(tables[loc.table], book, chapter, lo, hi)))

\* f"{book_short} {row['chapter']}:{row['verse']}" with the English name
ReferenceEnglish(book, chapter, verse) ==
  get_book_english(book) \o <<" ">> \o str(chapter) \o <<":">> \o str(verse)

\* f"{book_short} {row['chapter']}:{row['verse']}"
Reference(book, chapter, verse) ==
  get_book_short(book) \o <<" ">> \o str(chapter) \o <<":">> \o str(verse)

\* the VerseResult list of one "for row in rows" loop
VerseResults(rows, trans, terms, withStrongs) ==
  [n \in 1..Len(rows) |->
     [reference |-> Reference(rows[n].book, rows[n].chapter, rows[n].verse),
      text |-> process_bible_text(rows[n].txt, terms, withStrongs),
      book |-> rows[n].book, chapter |-> rows[n].chapter, verse |-> rows[n].verse,
      translation |-> trans, likes |-> rows[n].likes]]

\* txt LIKE pat from position i of txt and j of pat: "%" stands for any run of
\* characters, "_" for any one character, and the store's collation ignores
\* letter case (the keywords of the requests hold no backslash, the escape
\* character of LIKE)
RECURSIVE LikeFrom(_, _, _, _)
LikeFrom(txt, i, pat, j) ==
  IF j > Len(pat) THEN i > Len(txt)
  ELSE IF pat[j] = "%"
  THEN IF LikeFrom(txt, i, pat, j + 1) THEN TRUE
       ELSE i <= Len(txt) /\ LikeFrom(txt, i + 1, pat, j)
  ELSE IF i > Len(txt) THEN FALSE
  ELSE IF pat[j] = "_" THEN LikeFrom(txt, i + 1, pat, j + 1)
  ELSE SameFold(txt[i], pat[j]) /\ LikeFrom(txt, i + 1, pat, j + 1)

\* "txt LIKE %s" with the parameter f"%{keyword}%"
Like(txt, keyword) == LikeFrom(txt, 1, <<"%">> \o keyword \o <<"%">>, 1)

\* the rows the WHERE clause of search_by_keywords keeps
MatchingVerses(rows, keywords, book_filter) ==
  {k \in DOMAIN rows :
     /\ book_filter # 0 => k[1] = book_filter
     /\ \A n \in 1..Len(keywords) : Like(rows[k].txt, keywords[n])}

SEARCH_LIMIT == 100

\* LIMIT 100
Limited(keys) == SubSeq(keys, 1, IF Len(keys) < SEARCH_LIMIT THEN Len(keys) ELSE SEARCH_LIMIT)

\* COALESCE(b.likes, 0) of the LEFT JOIN with bible_books
JoinedLikes(tables, key) ==
  IF key \in DOMAIN tables[BIBLE_BOOKS] THEN tables[BIBLE_BOOKS][key].likes ELSE 0

JoinedRows(tables, keys) ==
  [n \in 1..Len(keys) |->
     [book |-> keys[n][1], chapter |-> keys[n][2], verse |-> keys[n][3],
      txt |-> tables[BIBLE_SEARCH][keys[n]].txt, likes |-> JoinedLikes(tables, keys[n])]]

\* db.fetch_all(query, *params) of search_by_keywords
SearchRows(tables, keywords, book_filter) ==
  JoinedRows(tables, Limited(OrderBy(MatchingVerses(tables[BIBLE_SEARCH], keywords, book_filter))))

\* SearchResponse(success=..., data=..., count=..., query=...)
SearchResponse(success, data, count, q) ==
  [kind |-> "json", success |-> success, data |-> data, count |-> count, query |-> q]

\* the failure written as a SearchResponse with success=False
HttpErrorAsEnvelope(detail) == SearchResponse(FALSE, <<>>, 0, detail)

\* HTTPException(status_code=500, detail=str(e))
HttpError(detail) == [kind |-> "http_error", status_code |-> 500, detail |-> detail]

\* "\n".join([f"{r.reference}: {r.text}" for r in results])
RECURSIVE PlainText(_)
PlainText(found) ==
  IF found = <<>> THEN <<>>
  ELSE IF Len(found) = 1 THEN found[1].reference \o <<":"," ">> \o found[1].text
  ELSE found[1].reference \o <<":"," ">> \o found[1].text \o <<"\n">> \o PlainText(Tail(found))

\* "".join([f"<p><strong>{r.reference}</strong>: {r.text}</p>\n" for r in results])
RECURSIVE HtmlText(_)
HtmlText(found) ==
  IF found = <<>> THEN <<>>
  ELSE <<"<","p",">","<","s","t","r","o","n","g",">">> \o found[1].reference \o <<"<","/","s","t","r","o","n","g",">",":"," ">> \o found[1].text
       \o <<"<","/","p",">">> \o <<"\n">> \o HtmlText(Tail(found))

\* "q or i"
QueryEcho(req) == IF req.q # <<>> THEN req.q ELSE req.i

\* "Format response based on API format"
FormatResponse(req, found) ==
  IF req.api \in {"text", "plain"} THEN [kind |-> "plain", content |-> PlainText(found)]
  ELSE IF req.api = "html" THEN [kind |-> "html", content |-> HtmlText(found)]
  ELSE SearchResponse(TRUE, found, Len(found), QueryEcho(req))

\* the store calls of one fetch_verses call with verse_min = verse_start - context
FetchJobsUnclamped(book, chapter, verse_start, verse_end, translations, context) ==
  [n \in 1..Len(translations) |->
     [kind |-> "fetch", book |-> book, chapter |-> chapter,
      lo |-> verse_start - context, hi |-> verse_end + context,
      trans |-> translations[n]]]

\* the store calls of one fetch_verses call, one per translation, with
\* verse_min and verse_max
FetchJobs(book, chapter, verse_start, verse_end, translations, context) ==
  [n \in 1..Len(translations) |->
     [kind |-> "fetch", book |-> book, chapter |-> chapter,
      lo |-> max(1, verse_start - context), hi |-> verse_end + context,
      trans |-> translations[n]]]

\* an int() that raises
RaiseJob == [kind |-> "raise"]

\* the body of "for verse_ref in verse_refs" for the parts of one verse_ref
RefJobs(parts, translations, context) ==
  IF Len(parts) >= 3
  THEN IF IntParses(parts[1]) /\ IntParses(parts[2]) /\ IntParses(parts[3])
       THEN FetchJobs(int(parts[1]), int(parts[2]), int(parts[3]), int(parts[3]),
                      translations, context)
       ELSE <<RaiseJob>>
  ELSE <<>>

\* "for verse_ref in verse_refs": what the handler does, in order
RECURSIVE IndexJobs(_, _, _)
IndexJobs(refs, translations, context) ==
  IF refs = <<>> THEN <<>>
  ELSE RefJobs(split_on(Head(refs), ":"), translations, context)
       \o IndexJobs(Tail(refs), translations, context)

\* "if b and b != book_id"
FilteredOut(parsed, b) == parsed.type = "reference" /\ b # 0 /\ b # parsed.book_id

\* the store calls of the "elif q" branch with "if not keywords: return results"
\* left out
QueryJobsAlways(parsed, req, translations) ==
  IF parsed.type = "reference"
  THEN FetchJobs(parsed.book_id, parsed.chapter, parsed.verse, parsed.verse_end,
                 translations, req.e)
  ELSE <<[kind |-> "search", keywords |-> parsed.keywords, book_filter |-> req.b]>>

\* the store calls of the "elif q" branch; search_by_keywords makes none for an
\* empty keyword list
QueryJobs(parsed, req, translations) ==
  IF parsed.type = "reference"
  THEN FetchJobs(parsed.book_id, parsed.chapter, parsed.verse, parsed.verse_end,
                 translations, req.e)
  ELSE IF parsed.keywords = <<>> THEN <<>>
  ELSE <<[kind |-> "search", keywords |-> parsed.keywords, book_filter |-> req.b]>>

\* search_verses up to its first store call with "if i" and "elif q" taken in
\* the opposite order
PlanQueryFirst(req) ==
  IF req.q # <<>>
  THEN IF FilteredOut(parse_query(req.q), req.b)
       THEN [early |-> SearchResponse(TRUE, <<>>, 0, req.q), jobs |-> <<>>]
       ELSE [early |-> None,
             jobs |-> QueryJobs(parse_query(req.q), req, TranslationsOf(req.translation))]
  ELSE IF req.i # <<>>
  THEN [early |-> None,
        jobs |-> IndexJobs(StripAll(split_on(req.i, ",")), TranslationsOf(req.translation), req.e)]
  ELSE [early |-> SearchResponse(FALSE, <<>>, 0, None), jobs |-> <<>>]

\* search_verses up to its first store call: the calls it is going to make, or
\* the response it returns at once
Plan(req) ==
  IF req.i # <<>>
  THEN [early |-> None,
        jobs |-> IndexJobs(StripAll(split_on(req.i, ",")), TranslationsOf(req.translation), req.e)]
  ELSE IF req.q # <<>>
  THEN IF FilteredOut(parse_query(req.q), req.b)
       THEN [early |-> SearchResponse(TRUE, <<>>, 0, req.q), jobs |-> <<>>]
       ELSE [early |-> None,
             jobs |-> QueryJobs(parse_query(req.q), req, TranslationsOf(req.translation))]
  ELSE [early |-> SearchResponse(FALSE, <<>>, 0, None), jobs |-> <<>>]

\* search_verses running on without a store call: it returns the response when
\* nothing is left to do, raises at an int() that fails, and waits for the store
\* otherwise
Advance(req, todo, found) ==
  IF todo = <<>> THEN [pc |-> "responded", response |-> FormatResponse(req, found)]
  ELSE IF Head(todo).kind = "raise"
  THEN [pc |-> "failed", response |-> HttpError(<<"i","n","v","a","l","i","d"," ","l","i","t","e","r","a","l">>)]
  ELSE [pc |-> "awaiting", response |-> None]

\* the store has the table the call reads
TableExists(tables, job) ==
  IF job.kind = "search" THEN TRUE ELSE Locate(job.trans).table \in DOMAIN tables

\* the columns of the two tables search_by_keywords joins
bible_books_columns ==
  {"id", "book", "chapter", "verse", "txt_tw", "txt_cn", "txt_en", "txt_py", "short",
   "updated", "reported", "likes"}
bible_search_columns == {"book", "chapter", "verse", "txt"}

\* the columns where_clause names without a table: "txt LIKE %s" for every
\* keyword, and "book = %s" in front of it "if book_filter"
WhereColumns(book_filter) == IF book_filter # 0 THEN {"book", "txt"} ELSE {"txt"}

\* the store rejects a statement that names, without a table, a column both
\* joined tables have
Ambiguous(job) ==
  IF job.kind = "search"
  THEN WhereColumns(job.book_filter) \cap bible_books_columns \cap bible_search_columns # {}
  ELSE FALSE

\* what the store raises when it cannot be reached
StoreUnavailable == <<"s","t","o","r","e"," ","u","n","a","v","a","i","l","a","b","l","e">>

\* what the store raises for the statement itself, None when it runs it
StatementError(tables, job) ==
  IF ~TableExists(tables, job) THEN <<"n","o"," ","s","u","c","h"," ","t","a","b","l","e">>
  ELSE IF Ambiguous(job) THEN <<"a","m","b","i","g","u","o","u","s"," ","c","o","l","u","m","n">>
  ELSE None

\* the VerseResults one store call adds to results
Fetched(tables, job, withStrongs) ==
  IF job.kind = "search"
  THEN VerseResults(SearchRows(tables, job.keywords, job.book_filter), None,
                    job.keywords, withStrongs)
  ELSE VerseResults(FetchVerseRows(tables, Locate(job.trans), job.book, job.chapter,
                                   job.lo, job.hi),
                    job.trans, NoQueries, withStrongs)

-----------------------------------------------------------------------------
(* Wiki endpoint: app/routers/wiki.py over app/utils/wiki_utils.py          *)

block_size == 1800
SEARCH_TEXT_LIMIT == 2000

\* min(a, b)
min(a, b) == IF a <= b THEN a ELSE b

\* s[a:b] of Python for 0 <= a: both ends are clamped to the length
PySlice(s, a, b) == SubSeq(s, min(a, Len(s)) + 1, min(b, Len(s)))

\* (size + block_size - 1) // block_size if size > 0 else 1
PageCount(size) == IF size > 0 THEN (size + block_size - 1) \div block_size ELSE 1

\* "If content is too long, paginate", for the page already clamped
PageOf(txt, page, page_count) ==
  IF Len(txt) > block_size
  THEN PySlice(txt, (page - 1) * block_size, (page - 1) * block_size + block_size)
       \o <<"\n", "\n">> \o <<"(","U+7B2C">> \o str(page) \o <<"/">> \o str(page_count) \o <<"U+9875",")">>
  ELSE txt

\* the text search_wiki holds after the first reply: rev is the <rev> element
\* of the reply ([size, text]), or None when the reply has none
PageText(rev, page) ==
  IF rev = None THEN <<>>
  ELSE PageOf(rev.text, min(max(1, page), PageCount(rev.size)), PageCount(rev.size))

\* the lines "\n {title}\n" of the search results
RECURSIVE TitleLines(_)
TitleLines(titles) ==
  IF titles = <<>> THEN <<>>
  ELSE <<"\n", " ">> \o Head(titles) \o <<"\n">> \o TitleLines(Tail(titles))

\* txt[:2000] + "\n\n..." when the list is longer than 2000 characters
Abridged(txt) ==
  IF Len(txt) > SEARCH_TEXT_LIMIT
  THEN PySlice(txt, 0, SEARCH_TEXT_LIMIT) \o <<"\n", "\n">> \o <<"U+5185","U+5BB9","U+592A","U+957F","U+6709","U+5220","U+8282">>
  ELSE txt

\* the text search_wiki returns after the search reply
SearchText(q, titles) ==
  IF titles # <<>>
  THEN Abridged(q \o <<" ","U+5171","U+641C","U+7D22","U+5230">> \o str(Len(titles))
                \o <<" ","U+4E2A","U+8BCD","U+6761","U+FF0C","U+8BF7","U+53D1","U+9001","U+5B8C","U+6574","U+7684","U+8BCD","U+6761","U+6807","U+9898","U+67E5","U+770B","U+5185","U+5BB9","U+FF1A">> \o <<"\n">>
                \o TitleLines(titles))
  ELSE <<"U+6CA1","U+6709","U+67E5","U+5230","U+641C","U+7D22","U+7684","U+8BCD","U+6761","U+FF0C","U+8BF7","U+66F4","U+6362","U+5173","U+952E","U+8BCD","U+518D","U+641C","U+7D22","U+3002">>

\* "except Exception as e: return f"Error fetching wiki content: {str(e)}""
FetchErrorText(e) == <<"E","r","r","o","r"," ","f","e","t","c","h","i","n","g"," ","w","i","k","i"," ","c","o","n","t","e","n","t",":"," ">> \o e

\* WikiResponse(success=False, error=str(e), query=q)
WikiFailure(e, q) == [success |-> FALSE, error |-> e, query |-> q]

\* WikiResponse(success=True, data=content, query=q)
WikiResponse(content, q) == [success |-> TRUE, data |-> content, query |-> q]

-----------------------------------------------------------------------------
(* Inputs                                                                  *)

\* the strings made of at most n pieces of F, joined
RECURSIVE Joined(_, _)
Joined(F, n) ==
  IF n = 0 THEN {<<>>}
  ELSE LET P == Joined(F, n - 1) IN P \cup {p \o f : p \in P, f \in F}

\* ids probed on each side of the valid range 1..66
IdMargin == 2
\* pieces per query string, per marked-up text and per encoding-damaged text
MaxQueryParts == 3
MaxTextParts == 3
MaxDamagedParts == 5

ProbeIds == (0 - IdMargin)..(Len(BOOK_SHORT) - 1 + IdMargin)

\* the traditional and the simplified Chinese alias of Genesis and its two
\* English names
GenesisNames ==
  { <<"G","e","n">>, <<"G","e","n","e","s","i","s">>, <<"U+521B">>, <<"U+5275">> }

ProbeNames ==
  AliasNames \cup GenesisNames \cup {lower(n) : n \in AliasNames}
  \cup {<<" ">> \o n \o <<" ">> : n \in AliasNames} \cup {<<>>, <<"F","o","o">>}

QueryParts ==
  { <<"G","e","n">>, <<"J","o","h","n">>, <<"j","o","h","n">>,
    <<"1","C","o","r">>, <<"1"," ","J","o","h","n">>,
    <<"S","o","n","g"," ","o","f"," ","S","o","l","o","m","o","n">>,
    <<"F","o","o">>, <<"U+521B">>, <<" ">>, <<".">>,
    <<"3",":","1","6">>, <<"0",":","0">>, <<"1",":","5","-","3">> }
QueryInputs == Joined(QueryParts, MaxQueryParts)

TextParts ==
  { <<"<">>, <<"G","1",">">>, <<"<","G","1",">">>, <<"<","W","H","1","2",">">>,
    SUP_OPEN, SUP_CLOSE, <<"l","o","v","e">>, <<" ">>, TAG_FR, TAG_Fr,
    FONT_COLOR \o <<"r","e","d",">">> }
DamagedParts ==
  { <<"U+00EF">>, REPLACEMENT_CHAR, <<"U+00BF","U+00BD">> }
TextInputs == Joined(TextParts, MaxTextParts) \cup Joined(DamagedParts, MaxDamagedParts)

\* the rows of bible_books, by (book, chapter, verse), and the verses a
\* LikeRequest may name: the stored ones and one that has no row
StoredVerses == { <<43, 3, 16>>, <<45, 5, 8>> }
LikeVerses == StoredVerses \cup { <<43, 3, 99>> }
\* like requests in flight at once, and the largest counter a row starts with
MaxClients == 2
MaxStartLikes == 1
Clients == 1..MaxClients

TermLists ==
  { NoQueries, <<<<"s","p","a","n">>>>, <<<<"l","o","v","e">>>>,
    <<<<"l","o","v","e">>, <<"o">>>> }

\* stored texts and term lists for highlighting: a term that occurs twice, in
\* another letter case, overlapping itself, next to markup, and lists with an
\* empty term and with a term that occurs in the marker
HighlightParts ==
  { <<"l","o","v","e">>, <<"L","o","v","e">>, <<"o">>, <<" ">>,
    <<"<","G","1",">">>, TAG_FR }
HighlightInputs == Joined(HighlightParts, MaxTextParts)
HighlightTermLists ==
  TermLists \cup { <<<<"l","o","v","e">>, <<>>, <<"o">>>>, <<<<"o","o">>>>, <<<<>>>> }

\* the verses the store of the search endpoint holds
SearchVerses == { <<43, 3, 16>>, <<43, 3, 17>>, <<45, 5, 8>> }

\* a row of bible_books: one txt column per translation kept there, and likes
BooksRow == [txt_cn |-> <<"U+7231">>, txt_tw |-> <<"U+611B">>, txt_en |-> <<"l","o","v","e">>, txt_py |-> <<"a","i">>, likes |-> 2]

\* a row of a translation table
ScriptureRow(txt) == [Scripture |-> txt]

\* the searchable text of bible_search
SearchTexts ==
  [k \in SearchVerses |->
     [txt |-> IF k = <<43, 3, 16>> THEN <<"l","o","v","e","d">>
              ELSE IF k = <<43, 3, 17>> THEN <<"w","o","r","l","d">> ELSE <<"L","o","v","e","<","G","2","6",">">>]]

\* the tables of a store in which every translation holds every verse:
\* bible_books, the translation tables of the translation map, a translation
\* table the map does not name, and bible_search
FullStore ==
  [t \in {BIBLE_BOOKS, <<"b","i","b","l","e","_","b","o","o","k","_","k","j","v">>, <<"b","i","b","l","e","_","b","o","o","k","_","n","a","s","b">>, <<"b","i","b","l","e","_","b","o","o","k","_","e","s","v">>,
          <<"b","i","b","l","e","_","b","o","o","k","_","n","c","v","s">>, BIBLE_SEARCH} |->
     IF t = BIBLE_BOOKS THEN [k \in SearchVerses |-> BooksRow]
     ELSE IF t = BIBLE_SEARCH THEN SearchTexts
     ELSE IF t = <<"b","i","b","l","e","_","b","o","o","k","_","k","j","v">> THEN [k \in SearchVerses |-> ScriptureRow(<<"l","o","v","e","<","G","2","6",">">>)]
     ELSE [k \in SearchVerses |-> ScriptureRow(<<"l","o","v","e">>)]]

\* the same store with John 3:16 missing from the NASB table
SparseStore ==
  [FullStore EXCEPT ![<<"b","i","b","l","e","_","b","o","o","k","_","n","a","s","b">>] =
     [k \in SearchVerses \ {<<43, 3, 16>>} |-> ScriptureRow(<<"l","o","v","e">>)]]

Stores == {FullStore, SparseStore}

\* the q strings, translation filters and book filters of the requests
SearchQueries ==
  { <<"J","o","h","n"," ","3",":","1","6">>, <<"J","o","h","n"," ","3",":","1","6","-","1","7">>, <<"R","o","m"," ","5",":","8">>, <<"F","o","o"," ","3",":","1","6">>, <<"l","o","v","e">>, <<"l","o","v","e"," ","o">>, <<"G","2","6">>, <<" ">>,
    <<"J","o","h","n"," ","3",":","0">>, <<"%">>, <<"l","o","_","e">>, <<" "," ">> }
TranslationFilters == { <<>>, <<"k","j","v">>, <<"K","J","V",","," ","x","y","z">>, <<"n","c","v","s">>, <<"c","u","v","s",",","e","s","v">> }
BookFilters == {0, 43, 45}

\* the verse_refs of an i string and the most an i string lists
IndexRefs == { <<"4","3",":","3",":","1","6">>, <<"4","3",":","3",":","1","7">>, <<"4","5",":","5",":","8">>, <<"4","3",":","3">>, <<"x",":","3",":","1","6">>, <<"4","3",":",":","1","6">> }
MaxIndexRefs == 2

RECURSIVE IndexStrings(_)
IndexStrings(n) ==
  IF n = 1 THEN IndexRefs
  ELSE IndexStrings(n - 1) \cup {s \o <<",">> \o r : s \in IndexStrings(n - 1), r \in IndexRefs}

\* the requests: searches by q, searches by i (with and without a q), the
\* plain-text and HTML formats, and a request with neither q nor i.  An absent
\* string parameter is <<>> and an absent b or e is 0: the handler tests them
\* for truth only.
Requests ==
  [q : SearchQueries, i : {<<>>}, translation : TranslationFilters, b : BookFilters,
   e : {-1, 0, 1}, strongs : BOOLEAN, api : {"json"}]
  \cup [q : {<<>>, <<"l","o","v","e">>}, i : IndexStrings(MaxIndexRefs), translation : TranslationFilters,
        b : {0}, e : {0, 1}, strongs : {FALSE}, api : {"json"}]
  \cup [q : {<<"J","o","h","n"," ","3",":","1","6">>, <<"l","o","v","e">>}, i : {<<>>}, translation : {<<>>}, b : {0},
        e : {0}, strongs : {FALSE}, api : {"text", "plain", "html"}]
  \cup [q : {<<>>}, i : {<<>>}, translation : {<<>>}, b : {0},
        e : {0}, strongs : {FALSE}, api : {"json"}]

\* the wiki titles asked for, the pages, the <rev> element of the first reply
\* (None when the reply has none) and the titles of the search reply
WikiQueries == { <<"J","e","s","u","s">>, <<"G","o","s","p","e","l">>, <<"N","o","b","o","d","y">> }
MaxWikiPage == 3
WikiRevisions ==
  { None, [size |-> 0, text |-> <<>>], [size |-> 5, text |-> <<"J","e","s","u","s">>],
    [size |-> 2 * block_size + 1, text |-> [k \in 1..(block_size + 1) |-> "a"]] }
WikiTitles == { <<>>, <<<<"J","e","s","u","s">>>>, <<<<"J","e","s","u","s">>, <<"J","e","s","u","s"," ","C","h","r","i","s","t">>>> }
\* str(e) of the exceptions the provider calls raise: connection error, timeout,
\* non-2xx status, body that does not parse
WikiErrors == { <<"c","o","n","n","e","c","t">>, <<"t","i","m","e","o","u","t">>, <<"s","t","a","t","u","s">>, <<"p","a","r","s","e">> }

-----------------------------------------------------------------------------
(* State machine                                                           *)

RegistryIdle == book_id = 0 /\ book_name = <<>> /\ resolved = 0 /\ chapter_count = 0
ParserIdle   == query = <<>> /\ result = None
RendererIdle ==
  /\ text = <<>> /\ queries = NoQueries /\ strongs = FALSE
  /\ formatted = <<>> /\ annotated = <<>> /\ rendered = <<>>
LikeIdle ==
  /\ likes = <<>> /\ like_request = <<>> /\ like_pc = <<>>
  /\ like_seen = <<>> /\ like_response = <<>> /\ likes_initial = <<>>
SearchIdle ==
  /\ request = None /\ store = <<>> /\ jobs = <<>> /\ results = <<>> /\ response = None
WikiIdle == wiki_query = <<>> /\ wiki_page = 0 /\ wiki_response = None

\* a caller holds a book id, or a book name
InitRegistry ==
  /\ \/ pc = "id_given" /\ book_id \in ProbeIds /\ book_name = <<>>
     \/ pc = "name_given" /\ book_id = 0 /\ book_name \in ProbeNames
  /\ resolved = 0 /\ chapter_count = 0
  /\ ParserIdle /\ RendererIdle /\ LikeIdle /\ SearchIdle /\ WikiIdle

\* a request holds a q string
InitParser ==
  /\ pc = "query_given"
  /\ query \in QueryInputs
  /\ result = None
  /\ RegistryIdle /\ RendererIdle /\ LikeIdle /\ SearchIdle /\ WikiIdle

\* a stored verse text is about to be rendered
InitRenderer ==
  /\ pc = "text_given"
  /\ text \in TextInputs
  /\ queries \in TermLists
  /\ strongs \in BOOLEAN
  /\ formatted = <<>> /\ annotated = <<>> /\ rendered = <<>>
  /\ RegistryIdle /\ ParserIdle /\ LikeIdle /\ SearchIdle /\ WikiIdle

\* a stored verse text is about to be rendered with highlighting
InitHighlight ==
  /\ pc = "text_given"
  /\ text \in HighlightInputs
  /\ queries \in HighlightTermLists
  /\ strongs \in BOOLEAN
  /\ formatted = <<>> /\ annotated = <<>> /\ rendered = <<>>
  /\ RegistryIdle /\ ParserIdle /\ LikeIdle /\ SearchIdle /\ WikiIdle

\* like requests have arrived, each a valid LikeRequest, none has run yet
InitLike ==
  /\ pc = "like"
  /\ likes \in [StoredVerses -> 0..MaxStartLikes]
  /\ likes_initial = likes
  /\ like_request \in [Clients -> LikeVerses]
  /\ like_pc = [c \in Clients |-> "called"]
  /\ like_seen = [c \in Clients |-> 0]
  /\ like_response = [c \in Clients |-> None]
  /\ RegistryIdle /\ ParserIdle /\ RendererIdle /\ SearchIdle /\ WikiIdle

\* a search request has arrived at a store
InitSearch ==
  /\ pc = "search_called"
  /\ request \in Requests
  /\ store \in Stores
  /\ jobs = <<>> /\ results = <<>> /\ response = None
  /\ RegistryIdle /\ ParserIdle /\ RendererIdle /\ LikeIdle /\ WikiIdle

\* a wiki request has arrived
InitWiki ==
  /\ pc = "wiki_called"
  /\ wiki_query \in WikiQueries
  /\ wiki_page \in 1..MaxWikiPage
  /\ wiki_response = None
  /\ RegistryIdle /\ ParserIdle /\ RendererIdle /\ LikeIdle /\ SearchIdle

Init ==
  \/ InitRegistry \/ InitParser \/ InitRenderer \/ InitHighlight
  \/ InitLike \/ InitSearch \/ InitWiki

GetBookShort ==
  /\ pc = "id_given"
  /\ book_name' = get_book_short(book_id)
  /\ pc' = "short_returned"
  /\ UNCHANGED <<book_id, resolved, chapter_count>>
  /\ UNCHANGED <<parserVars, rendererVars, likeVars, searchVars, wikiVars>>

GetBookEnglish ==
  /\ pc = "id_given"
  /\ book_name' = get_book_english(book_id)
  /\ pc' = "english_returned"
  /\ UNCHANGED <<book_id, resolved, chapter_count>>
  /\ UNCHANGED <<parserVars, rendererVars, likeVars, searchVars, wikiVars>>

GetBookChapterCount ==
  /\ pc = "id_given"
  /\ chapter_count' = get_book_chapter_count(book_id)
  /\ pc' = "count_returned"
  /\ UNCHANGED <<book_id, book_name, resolved>>
  /\ UNCHANGED <<parserVars, rendererVars, likeVars, searchVars, wikiVars>>

GetBookId ==
  /\ pc \in {"name_given", "short_returned"}
  /\ resolved' = get_book_id(book_name)
  /\ pc' = IF pc = "short_returned" THEN "round_trip_done" ELSE "id_returned"
  /\ UNCHANGED <<book_id, book_name, chapter_count>>
  /\ UNCHANGED <<parserVars, rendererVars, likeVars, searchVars, wikiVars>>

ParseQuery ==
  /\ pc = "query_given"
  /\ result' = parse_query(query)
  /\ pc' = "parsed"
  /\ UNCHANGED query
  /\ UNCHANGED <<registryVars, rendererVars, likeVars, searchVars, wikiVars>>

ProcessBibleText ==
  /\ pc = "text_given"
  /\ formatted' = StageFormat(text)
  /\ annotated' = StageAnnotate(formatted', strongs)
  /\ rendered' = StageHighlight(annotated', queries)
  /\ pc' = "rendered"
  /\ UNCHANGED <<text, queries, strongs>>
  /\ UNCHANGED <<registryVars, parserVars>>
  /\ UNCHANGED <<likeVars, searchVars, wikiVars>>

\* "await db.execute(update_query, ...)" returns: the row's counter is one up
LikeUpdate(c) ==
  /\ pc = "like" /\ like_pc[c] = "called"
  /\ likes' = UpdateLikes(likes, like_request[c])
  /\ like_seen' = [like_seen EXCEPT ![c] = IF like_request[c] \in DOMAIN likes'
                                           THEN likes'[like_request[c]] ELSE 0]
  /\ like_pc' = [like_pc EXCEPT ![c] = "updated"]
  /\ UNCHANGED <<pc, like_request, like_response, likes_initial>>
  /\ UNCHANGED <<registryVars, parserVars, rendererVars, searchVars, wikiVars>>

\* "await db.fetch_one(select_query, ...)" returns and like_verse answers
LikeSelect(c) ==
  /\ pc = "like" /\ like_pc[c] = "updated"
  /\ like_response' =
       [like_response EXCEPT ![c] = LikeResponse(SelectLikes(likes, like_request[c]))]
  /\ like_pc' = [like_pc EXCEPT ![c] = "done"]
  /\ UNCHANGED <<pc, likes, like_request, like_seen, likes_initial>>
  /\ UNCHANGED <<registryVars, parserVars, rendererVars, searchVars, wikiVars>>

\* a store call of like_verse raises: the except branch answers.  When the
\* UPDATE raises, the statement has been applied or it has not.
LikeStoreFails(c) ==
  /\ pc = "like" /\ like_pc[c] \in {"called", "updated"}
  /\ \/ likes' = likes
     \/ like_pc[c] = "called" /\ likes' = UpdateLikes(likes, like_request[c])
  /\ like_response' = [like_response EXCEPT ![c] = LikeFailure]
  /\ like_pc' = [like_pc EXCEPT ![c] = "failed"]
  /\ UNCHANGED <<pc, like_request, like_seen, likes_initial>>
  /\ UNCHANGED <<registryVars, parserVars, rendererVars, searchVars, wikiVars>>

\* search_verses runs from its call to its first store call, or to its end
SearchStart ==
  /\ pc = "search_called"
  /\ IF Plan(request).early # None
     THEN /\ jobs' = <<>>
          /\ response' = Plan(request).early
          /\ pc' = "responded"
     ELSE /\ jobs' = Plan(request).jobs
          /\ response' = Advance(request, jobs', results).response
          /\ pc' = Advance(request, jobs', results).pc
  /\ UNCHANGED <<request, store, results>>
  /\ UNCHANGED <<registryVars, parserVars, rendererVars, likeVars, wikiVars>>

\* "rows = await db.fetch_all(...)" returns: the rows become VerseResults and
\* search_verses runs on to its next store call, or to its end
StoreReturns ==
  /\ pc = "awaiting"
  /\ StatementError(store, Head(jobs)) = None
  /\ results' = results \o Fetched(store, Head(jobs), request.strongs)
  /\ jobs' = Tail(jobs)
  /\ response' = Advance(request, jobs', results').response
  /\ pc' = Advance(request, jobs', results').pc
  /\ UNCHANGED <<request, store>>
  /\ UNCHANGED <<registryVars, parserVars, rendererVars, likeVars, wikiVars>>

\* "await db.fetch_all(...)" raises, as it does for a table the store does not
\* have: "except Exception as e: raise HTTPException(...)"
StoreRaises ==
  /\ pc = "awaiting"
  /\ response' = HttpError(IF StatementError(store, Head(jobs)) = None
                           THEN StoreUnavailable
                           ELSE StatementError(store, Head(jobs)))
  /\ pc' = "failed"
  /\ UNCHANGED <<request, store, jobs, results>>
  /\ UNCHANGED <<registryVars, parserVars, rendererVars, likeVars, wikiVars>>

\* search_wiki sends its first request to the provider
WikiStart ==
  /\ pc = "wiki_called"
  /\ pc' = "wiki_page_awaited"
  /\ UNCHANGED wikiVars
  /\ UNCHANGED <<registryVars, parserVars, rendererVars, likeVars, searchVars>>

\* the first reply parses and has text: search_wiki returns it and the endpoint
\* answers
WikiPageReturns(rev) ==
  /\ pc = "wiki_page_awaited"
  /\ PageText(rev, wiki_page) # <<>>
  /\ wiki_response' = WikiResponse(PageText(rev, wiki_page), wiki_query)
  /\ pc' = "wiki_responded"
  /\ UNCHANGED <<wiki_query, wiki_page>>
  /\ UNCHANGED <<registryVars, parserVars, rendererVars, likeVars, searchVars>>

\* the first reply parses and has no text: search_wiki sends the search request
WikiPageEmpty(rev) ==
  /\ pc = "wiki_page_awaited"
  /\ PageText(rev, wiki_page) = <<>>
  /\ pc' = "wiki_search_awaited"
  /\ UNCHANGED wikiVars
  /\ UNCHANGED <<registryVars, parserVars, rendererVars, likeVars, searchVars>>

\* the search reply parses: search_wiki returns the list and the endpoint answers
WikiSearchReturns(titles) ==
  /\ pc = "wiki_search_awaited"
  /\ wiki_response' = WikiResponse(SearchText(wiki_query, titles), wiki_query)
  /\ pc' = "wiki_responded"
  /\ UNCHANGED <<wiki_query, wiki_page>>
  /\ UNCHANGED <<registryVars, parserVars, rendererVars, likeVars, searchVars>>

\* a provider call raises (connection error, timeout, raise_for_status, a body
\* that does not parse): search_wiki returns the error text and the endpoint
\* answers
WikiFetchFails(e) ==
  /\ pc \in {"wiki_page_awaited", "wiki_search_awaited"}
  /\ wiki_response' = WikiResponse(FetchErrorText(e), wiki_query)
  /\ pc' = "wiki_fetch_failed"
  /\ UNCHANGED <<wiki_query, wiki_page>>
  /\ UNCHANGED <<registryVars, parserVars, rendererVars, likeVars, searchVars>>

NextRegistry == GetBookShort \/ GetBookEnglish \/ GetBookChapterCount \/ GetBookId
NextParser == ParseQuery
NextRenderer == ProcessBibleText
NextLike ==
  \E c \in Clients : LikeUpdate(c) \/ LikeSelect(c) \/ LikeStoreFails(c)
NextSearch == SearchStart \/ StoreReturns \/ StoreRaises
NextWiki ==
  \/ WikiStart
  \/ \E rev \in WikiRevisions : WikiPageReturns(rev) \/ WikiPageEmpty(rev)
  \/ \E titles \in WikiTitles : WikiSearchReturns(titles)
  \/ \E e \in WikiErrors : WikiFetchFails(e)
Next == NextRegistry \/ NextParser \/ NextRenderer \/ NextLike \/ NextSearch \/ NextWiki

SpecRegistry == InitRegistry /\ [][NextRegistry]_vars
SpecParser == InitParser /\ [][NextParser]_vars
SpecRenderer == InitRenderer /\ [][NextRenderer]_vars
SpecLike == InitLike /\ [][NextLike]_vars
SpecHighlight == InitHighlight /\ [][NextRenderer]_vars
SpecSearch == InitSearch /\ [][NextSearch]_vars
SpecWiki == InitWiki /\ [][NextWiki]_vars
Spec == Init /\ [][Next]_vars

-----------------------------------------------------------------------------
(* Properties: Book Registry                                               *)

\* C9: round trip through the registry: for every id in 1..66,
\* get_book_id(get_book_short(id)) is id itself, and so an id whose short name
\* is get_book_short(id).
ShortNameRoundTrip ==
  (pc = "round_trip_done" /\ book_id \in 1..(Len(BOOK_SHORT) - 1))
    => (resolved = book_id /\ get_book_short(resolved) = book_name)

\* the round trip has run for the last book, Revelation
ShortNameRoundTripDone ==
  pc = "round_trip_done" /\ book_id = Len(BOOK_SHORT) - 1 /\ book_name = <<"R","e","v">>

\* C10: get_book_id returns 1 for "Gen", "Genesis" and both one-character
\* Chinese names of Genesis.
GenesisNamesResolveToOne ==
  (pc = "id_returned" /\ book_name \in GenesisNames) => resolved = 1

\* the Traditional Chinese name has been looked up
TraditionalGenesisLookedUp ==
  pc = "id_returned" /\ book_name = <<"U+5275">> /\ resolved # 0

\* the Traditional characters of the alias table, each with its Simplified form
TraditionalForms ==
  {
    <<"U+4E9E", "U+4E9A">>, <<"U+66F8", "U+4E66">>, <<"U+8A18", "U+8BB0">>, <<"U+7D50", "U+7ED3">>,
    <<"U+8CFD", "U+8D5B">>, <<"U+50B3", "U+4F20">>, <<"U+4F86", "U+6765">>, <<"U+7D00", "U+7EAA">>,
    <<"U+5275", "U+521B">>, <<"U+555F", "U+542F">>, <<"U+9304", "U+5F55">>, <<"U+8A72", "U+8BE5">>,
    <<"U+5F8C", "U+540E">>, <<"U+5E2B", "U+5E08">>, <<"U+7F85", "U+7F57">>, <<"U+5F4C", "U+5F25">>,
    <<"U+9580", "U+95E8">>, <<"U+8A69", "U+8BD7">>, <<"U+9D3B", "U+9E3F">>, <<"U+99AC", "U+9A6C">>
  }

SimplifiedChar(c) ==
  IF \E p \in TraditionalForms : p[1] = c
  THEN (CHOOSE p \in TraditionalForms : p[1] = c)[2]
  ELSE c

\* a name written with Simplified characters only
Simplified(s) == [i \in 1..Len(s) |-> SimplifiedChar(s[i])]

\* C11: every alias resolves to an id in 1..66, every id in 1..66 has an alias,
\* and a name whose Simplified spelling is in the table too resolves to the
\* same book as that spelling.
AliasTableIsManyToOne ==
  /\ (pc = "id_returned" /\ book_name \in AliasNames)
       => /\ resolved \in 1..(Len(BOOK_SHORT) - 1)
          /\ Simplified(book_name) \in AliasNames
               => get_book_id(Simplified(book_name)) = resolved
  /\ (pc = "round_trip_done" /\ book_id \in 1..(Len(BOOK_SHORT) - 1))
       => \E a \in AliasNames : get_book_id(a) = book_id

\* C12: for an id outside 1..66 the short and the English name are empty and
\* the chapter count is 0; for an id in 1..66 the names are not empty and the
\* chapter count is 1 at least.
OutOfRangeIdIsEmpty ==
  LET known == book_id \in 1..(Len(BOOK_SHORT) - 1)
  IN  /\ pc \in {"short_returned", "english_returned"} => (known <=> book_name # <<>>)
      /\ pc = "count_returned" => (known <=> chapter_count >= 1) /\ chapter_count >= 0

\* the English name of a negative id has been asked for
NegativeIdAsked ==
  pc = "english_returned" /\ book_id = 0 - 1 /\ book_name = <<>>

-----------------------------------------------------------------------------
(* Properties: Query Classifier                                            *)

IsDigits(s) == s # <<>> /\ \A i \in 1..Len(s) : IsDigit(s[i])

\* s is "C:V" with C and V decimal numbers; c is the position of the colon
IsChapterVerse(s, c) ==
  c \in 1..Len(s) /\ s[c] = ":" /\ IsDigits(Slice(s, 1, c)) /\ IsDigits(Slice(s, c + 1, Len(s) + 1))

\* C1: every "<BookName> C:V" whose <BookName> is an alias of the registry
\* (aliases that start with a digit or hold spaces included) parses to the
\* reference (resolve(<BookName>), C, V, V).
AliasChapterVerseIsReference ==
  pc = "parsed" =>
    \A n \in 1..Len(query) : \A c \in (n + 1)..Len(query) :
      ( /\ Slice(query, 1, n) \in AliasNames
        /\ query[n] = " "
        /\ IsChapterVerse(Slice(query, n + 1, Len(query) + 1), c - n) )
      => result = [type |-> "reference",
                   book_id |-> get_book_id(Slice(query, 1, n)),
                   chapter |-> int(Slice(query, n + 1, c)),
                   verse |-> int(Slice(query, c + 1, Len(query) + 1)),
                   verse_end |-> int(Slice(query, c + 1, Len(query) + 1))]

\* the positions where a whitespace-separated token of s starts
TokenStarts(s) == {i \in 1..Len(s) : ~IsSpace(s[i]) /\ (i = 1 \/ IsSpace(s[i - 1]))}

\* ks is exactly the sequence of whitespace-separated tokens of s, in order
IsTokensOf(ks, s) ==
  /\ Len(ks) = Cardinality(TokenStarts(s))
  /\ \A i \in TokenStarts(s) :
       ks[1 + Cardinality({j \in TokenStarts(s) : j < i})]
         = Slice(s, i, RunEnd(s, i, IsNonSpace))

LeadingToken(s) ==
  IF TokenStarts(s) = {} THEN <<>>
  ELSE LET i == CHOOSE p \in TokenStarts(s) : \A r \in TokenStarts(s) : p <= r
       IN  Slice(s, i, RunEnd(s, i, IsNonSpace))

IsKeywordsOf(r, s) == r.type = "keyword" /\ IsTokensOf(r.keywords, s)

\* C2 as stated: when the leading whitespace-separated token resolves to no
\* book, the query is a keyword query holding every token of the input in order.
UnknownLeadingTokenIsKeywords ==
  (pc = "parsed" /\ get_book_id(LeadingToken(query)) = 0) => IsKeywordsOf(result, query)

\* the book name a leading token carries: the token up to its first digit or
\* colon, without trailing '.', ',' and ';'
LeadingName(s) ==
  LET t == LeadingToken(s)
  IN  rstrip(Slice(t, 1, RunEnd(t, 1, IsLooseNameChar)), {".", ",", ";"})

\* C2, amended: when the leading token, taken up to its first digit or colon and
\* without trailing '.', ',' and ';', resolves to no book, the query is a
\* keyword query holding every token of the input in order.
UnknownLeadingNameIsKeywords ==
  (pc = "parsed" /\ get_book_id(LeadingName(query)) = 0) => IsKeywordsOf(result, query)

\* a reference-shaped query with an unknown book has been classified
UnknownBookClassified ==
  /\ pc = "parsed"
  /\ query = <<"F","o","o"," ","3",":","1","6">>
  /\ result.type = "keyword"

\* C3: every reference the parser returns has verse_end >= verse, chapter >= 1
\* and verse >= 1.
ReferenceIsOneBasedRange ==
  (pc = "parsed" /\ result.type = "reference")
    => (result.verse_end >= result.verse /\ result.chapter >= 1 /\ result.verse >= 1)

-----------------------------------------------------------------------------
(* Properties: Text Renderer                                               *)

\* C4: without annotations and without highlight terms, the rendered text holds
\* none of "<G", "<H", "<WG", "<WH", in any letter case.
NoAnnotationMarkupLeft ==
  (pc = "rendered" /\ ~strongs /\ queries = NoQueries)
    => \A i \in 1..Len(rendered) :
         \A head \in {<<"<","G">>, <<"<","H">>, <<"<","W","G">>, <<"<","W","H">>} :
           ~HasAtFold(rendered, i, head)

IsPlain(s) == \A i \in 1..Len(s) : s[i] # "<" /\ s[i] # ">"

\* C5: when annotations are not requested, a <sup> wrapper whose only content is
\* one annotation tag (with optional whitespace around it) is removed whole: in
\* otherwise plain text nothing of it is left, neither the tag nor an empty
\* <sup></sup> pair.
SoleTagWrapperRemoved ==
  (pc = "rendered" /\ ~strongs) =>
    \A i \in 1..Len(formatted) :
      LET e == SupOnlyMatch(formatted, i).end
          before == Slice(formatted, 1, i)
          after == Slice(formatted, e, Len(formatted) + 1)
      IN  (e # 0 /\ IsPlain(before) /\ IsPlain(after)) => annotated = before \o after

\* <WGn>, <WHn>, <Gn> or <Hn> (1-4 digits, optional letter suffix) at position i
IsAnnotationTagAt(s, i) ==
  \E head \in {<<"<","W","G">>, <<"<","W","H">>, <<"<","G">>, <<"<","H">>} :
    HasAtFold(s, i, head) /\ CodeTail(s, i + Len(head)).end # 0

\* C6: when annotations are requested every annotation tag is rewritten into a
\* link after its word: no annotation tag is left in the text.
NoAnnotationTagSurvives ==
  (pc = "rendered" /\ strongs) =>
    \A i \in 1..Len(annotated) : ~IsAnnotationTagAt(annotated, i)

\* the tags the earlier stages write
StageTags ==
  {SPAN_RED, SPAN_ORANGE, SPAN_FOOTNOTE, SPAN_CLOSE, ITALIC_OPEN, ITALIC_CLOSE}

Occurrences(s, lit) == Cardinality({i \in 1..Len(s) : HasAt(s, i, lit)})

\* C7: highlighting puts no marker between the '<' and '>' of a tag written by
\* the earlier stages: every such tag is still whole in the rendered text.
HighlightLeavesTagsWhole ==
  (pc = "rendered" /\ queries # NoQueries) =>
    \A tag \in StageTags : Occurrences(rendered, tag) >= Occurrences(annotated, tag)

\* C8: encoding repair followed by markup expansion is idempotent: applied to
\* its own result it changes nothing.
FormatStagesIdempotent ==
  pc = "rendered" => process_formatting_tags(fix_text_encoding(formatted)) = formatted


-----------------------------------------------------------------------------
(* Properties: Like endpoint                                               *)

\* C13: the likes value of a successful response for an existing verse is the
\* counter value right after that request's own increment, and two requests
\* for the same verse never report the same count.
LikeCountIsOwnIncrement ==
  \A c \in Clients :
    (pc = "like" /\ like_pc[c] = "done" /\ like_request[c] \in StoredVerses) =>
      /\ like_response[c].likes = like_seen[c]
      /\ \A d \in Clients \ {c} :
           (like_pc[d] = "done" /\ like_request[d] = like_request[c])
             => like_response[d].likes # like_response[c].likes

\* a request for a verse that has no row has run to its end
MissingVerseAnswered(c) ==
  pc = "like" /\ like_pc[c] = "done" /\ like_request[c] \notin StoredVerses

\* C14: a like request for a verse that has no row, once its store calls have
\* returned, answers success with likes 0, and no step of such a request changes
\* a stored counter.
MissingVerseLikeIsZero ==
  /\ [](\A c \in Clients :
          MissingVerseAnswered(c) => like_response[c] = [success |-> TRUE, likes |-> 0])
  /\ [][\A c \in Clients :
          (like_pc'[c] # like_pc[c] /\ like_request[c] \notin StoredVerses /\ like_pc'[c] # "failed")
            => likes' = likes]_vars

\* a request for a missing verse has been answered while another request was
\* counted
MissingVerseLiked ==
  /\ pc = "like"
  /\ \E c \in Clients : like_pc[c] = "done" /\ like_request[c] \notin StoredVerses
  /\ \E d \in Clients : like_pc[d] = "done" /\ like_request[d] \in StoredVerses

-----------------------------------------------------------------------------
(* Properties: Search endpoint                                              *)

\* the store holds the verse in every default translation
HoldsInEveryDefault(tables, key) ==
  \A n \in 1..Len(DefaultTranslations) :
    /\ Locate(DefaultTranslations[n]).table \in DOMAIN tables
    /\ key \in DOMAIN tables[Locate(DefaultTranslations[n]).table]

\* the request q="John 3:16" with no translation filter and nothing else set
\* has been answered from a store that holds the verse in every default
\* translation
JohnSearchAnswered ==
  /\ pc = "responded"
  /\ request.q = <<"J","o","h","n"," ","3",":","1","6">> /\ request.i = <<>>
  /\ request.translation = <<>> /\ request.b = 0 /\ request.e = 0
  /\ request.api = "json"
  /\ HoldsInEveryDefault(store, <<43, 3, 16>>)

\* C15: a search with q="John 3:16" and no translation filter, against a store
\* that holds John 3:16 in every default translation, returns exactly one row
\* per default translation (cuvs, cuvt, kjv, nasb, in that order), each with
\* reference "John 3:16"; and every row of every JSON response has the
\* reference get_book_short(book) + " " + chapter + ":" + verse of that row.
ReferenceSearchRows ==
  /\ JohnSearchAnswered =>
       /\ response.success
       /\ response.count = 4
       /\ Len(response.data) = 4
       /\ \A n \in 1..4 :
            /\ response.data[n].translation = << <<"c","u","v","s">>, <<"c","u","v","t">>, <<"k","j","v">>, <<"n","a","s","b">> >>[n]
            /\ response.data[n].reference = <<"J","o","h","n"," ","3",":","1","6">>
  /\ (pc = "responded" /\ response.kind = "json") =>
       \A n \in 1..Len(response.data) :
         response.data[n].reference =
           get_book_short(response.data[n].book) \o <<" ">> \o str(response.data[n].chapter)
             \o <<":">> \o str(response.data[n].verse)

\* the John 3:16 request has been answered with four rows
JohnSearchReturned == JohnSearchAnswered /\ Len(response.data) = 4

\* the request is a keyword search
KeywordSearchAsked ==
  /\ request.i = <<>> /\ request.q # <<>>
  /\ parse_query(request.q).type = "keyword"

\* the keyword wrapped in the highlight marker
Highlighted(keyword) == <<"<","s","t","r","o","n","g",">">> \o keyword \o <<"<","/","s","t","r","o","n","g",">">>

\* C16: a keyword search with a book filter b, sent to a store that can be
\* reached, is answered with rows; and every row a keyword search returns has
\* book = b when a filter b was given and a rendered text that contains every
\* keyword wrapped in the highlight marker, "<strong>k</strong>".
KeywordRowsFilteredAndHighlighted ==
  /\ (pc = "failed" /\ KeywordSearchAsked /\ request.b # 0)
       => response.detail = StoreUnavailable
  /\ (pc = "responded" /\ KeywordSearchAsked /\ response.kind = "json") =>
       \A n \in 1..Len(response.data) :
         /\ request.b # 0 => response.data[n].book = request.b
         /\ \A j \in 1..Len(parse_query(request.q).keywords) :
              Contains(response.data[n].text, Highlighted(parse_query(request.q).keywords[j]))

\* the verse_refs of the request
ListedRefs == StripAll(split_on(request.i, ","))

\* verse_ref is a book:chapter:verse triple of numbers
IsTriple(ref) ==
  /\ Len(split_on(ref, ":")) = 3
  /\ \A k \in 1..3 : IntParses(split_on(ref, ":")[k])

\* the verse a triple names
ListedVerse(ref) ==
  << int(split_on(ref, ":")[1]), int(split_on(ref, ":")[2]), int(split_on(ref, ":")[3]) >>

\* an index-mode request that lists existing verses and has neither a
\* translation filter nor a context has been answered
IndexSearchAnswered ==
  /\ pc = "responded"
  /\ request.i # <<>> /\ request.translation = <<>> /\ request.e = 0
  /\ \A k \in 1..Len(ListedRefs) :
       IsTriple(ListedRefs[k]) /\ ListedVerse(ListedRefs[k]) \in DOMAIN store[BIBLE_BOOKS]

\* the rows of one listed verse: one per default translation that holds it
RECURSIVE RowsOfVerse(_, _, _)
RowsOfVerse(tables, key, n) ==
  IF n > Len(DefaultTranslations) THEN <<>>
  ELSE (IF key \in DOMAIN tables[Locate(DefaultTranslations[n]).table]
        THEN << [book |-> key[1], chapter |-> key[2], verse |-> key[3],
                 translation |-> DefaultTranslations[n]] >>
        ELSE <<>>)
       \o RowsOfVerse(tables, key, n + 1)

\* the rows of the listed verses, verse by verse in the order of the list
RECURSIVE RowsOfList(_, _)
RowsOfList(tables, refs) ==
  IF refs = <<>> THEN <<>>
  ELSE RowsOfVerse(tables, ListedVerse(Head(refs)), 1) \o RowsOfList(tables, Tail(refs))

\* the verse and translation of every row of the response
ResponseRows ==
  [n \in 1..Len(response.data) |->
     [book |-> response.data[n].book, chapter |-> response.data[n].chapter,
      verse |-> response.data[n].verse, translation |-> response.data[n].translation]]

\* C17 (as stated): an index-mode search whose i lists n existing verses
\* returns exactly n rows, the k-th row being the k-th listed verse, with no
\* translation filter supplied and whatever q contains.
IndexSearchReturnsListedVerses ==
  IndexSearchAnswered =>
    /\ Len(response.data) = Len(ListedRefs)
    /\ \A k \in 1..Len(ListedRefs) :
         <<response.data[k].book, response.data[k].chapter, response.data[k].verse>>
           = ListedVerse(ListedRefs[k])

\* C17: an index-mode search whose i lists existing verses, with no translation
\* filter and no context, returns for each listed verse, in the order of the
\* list, one row per default translation that holds the verse (cuvs, cuvt, kjv,
\* nasb, in that order) and nothing else, whatever q contains.
IndexSearchReturnsRowPerTranslation ==
  IndexSearchAnswered =>
    /\ response.kind = "json" /\ response.success
    /\ ResponseRows = RowsOfList(store, ListedRefs)

\* i=43:3:16,43:3:17 with q=love has been answered with the two verses in four
\* translations each
TwoListedVersesReturned ==
  /\ IndexSearchAnswered
  /\ request.i = <<"4","3",":","3",":","1","6",",","4","3",":","3",":","1","7">> /\ request.q = <<"l","o","v","e">>
  /\ Len(response.data) = 8

\* the storage locations of the static translation map
MapTables == {e[2] : e \in table_map}

\* C18: a translation code that is not in the static translation map is read
\* from a table of the map, and the request does not fail because of the
\* unknown code.
UnknownTranslationFallsBack ==
  /\ \A n \in 1..Len(jobs) :
       jobs[n].kind = "fetch" => Locate(jobs[n].trans).table \in MapTables
  /\ pc = "failed" => response.detail # <<"n","o"," ","s","u","c","h"," ","t","a","b","l","e">>

\* a store call of a reference fetch has raised after earlier translations
\* returned rows
FetchFailedPartway ==
  /\ pc = "failed"
  /\ results # <<>>
  /\ jobs # <<>> /\ Head(jobs).kind = "fetch"

-----------------------------------------------------------------------------
(* Properties: Wiki endpoint                                                *)

\* C20: a failure of a call to the wiki provider (connection error, timeout,
\* non-2xx status, unparseable body) is answered with success = false and an
\* error message, never with success = true.
WikiFetchFailureIsReported ==
  pc = "wiki_fetch_failed" =>
    /\ wiki_response.success = FALSE
    /\ "error" \in DOMAIN wiki_response

-----------------------------------------------------------------------------
(* Properties: Search endpoint, inputs and ordering                         *)

\* C21: malformed input is never surfaced as a failure: whatever the q string
\* and the i string are, a search only ends in an error response when a store
\* call raised; an i string with a non-numeric or empty part ("x:3:16",
\* "43::16") is answered with a success result.
MalformedInputNeverFails ==
  pc = "failed" =>
    /\ jobs # <<>>
    /\ Head(jobs).kind = "fetch" \/ Head(jobs).kind = "search"

\* the verse ranges the request asks for: the parsed reference of q, or the
\* well-formed triples of i
RequestedRanges ==
  IF request.i # <<>>
  THEN { [book |-> ListedVerse(ListedRefs[k])[1], chapter |-> ListedVerse(ListedRefs[k])[2],
          verse_start |-> ListedVerse(ListedRefs[k])[3], verse_end |-> ListedVerse(ListedRefs[k])[3]] :
           k \in {j \in 1..Len(ListedRefs) : IsTriple(ListedRefs[j])} }
  ELSE IF request.q # <<>> /\ parse_query(request.q).type = "reference"
  THEN { [book |-> parse_query(request.q).book_id, chapter |-> parse_query(request.q).chapter,
          verse_start |-> parse_query(request.q).verse,
          verse_end |-> parse_query(request.q).verse_end] }
  ELSE {}

\* C22: fetch_verses queries the window [max(1, verse_start - context),
\* verse_end + context]: the lower bound is at least 1 for every verse_start and
\* context, the upper bound is verse_end + context unclamped, for context >= 0
\* and verse_start >= 1 the window holds the whole requested range, and every
\* returned row has the requested book and chapter and a verse inside the window.
FetchWindowIsClampedBelow ==
  /\ \A n \in 1..Len(jobs) :
       jobs[n].kind = "fetch" =>
         \E r \in RequestedRanges :
           /\ jobs[n].book = r.book /\ jobs[n].chapter = r.chapter
           /\ jobs[n].lo >= 1
           /\ jobs[n].lo >= r.verse_start - request.e
           /\ jobs[n].lo = 1 \/ jobs[n].lo = r.verse_start - request.e
           /\ jobs[n].hi = r.verse_end + request.e
           /\ (request.e >= 0 /\ r.verse_start >= 1) =>
                jobs[n].lo <= r.verse_start /\ r.verse_end <= jobs[n].hi
  /\ \A n \in 1..Len(results) :
       results[n].translation # None =>
         \E r \in RequestedRanges :
           /\ results[n].book = r.book /\ results[n].chapter = r.chapter
           /\ results[n].verse >= 1
           /\ results[n].verse >= r.verse_start - request.e
           /\ results[n].verse <= r.verse_end + request.e

\* q="John 3:16" with a context of one verse has been answered with John 3:17
ContextRowsReturned ==
  /\ pc = "responded"
  /\ request.q = <<"J","o","h","n"," ","3",":","1","6">> /\ request.e = 1
  /\ \E n \in 1..Len(response.data) : response.data[n].verse = 17

\* verse a is not after verse b in the canon
NotAfter(a, b) ==
  \/ a[1] < b[1]
  \/ a[1] = b[1] /\ a[2] < b[2]
  \/ a[1] = b[1] /\ a[2] = b[2] /\ a[3] <= b[3]

\* the keywords of the request's q
AskedKeywords == parse_query(request.q).keywords

\* the searchable text of the verse a row names
SearchableText(row) == store[BIBLE_SEARCH][<<row.book, row.chapter, row.verse>>].txt

\* C23: a keyword search returns only rows whose searchable text contains
\* every keyword as a literal substring ("%" and "_" in a keyword matched
\* literally), restricted to the book filter when one is given, at most 100
\* rows, ordered by (book, chapter, verse) ascending.
KeywordRowsContainKeywords ==
  (pc = "responded" /\ KeywordSearchAsked /\ response.kind = "json") =>
    /\ Len(response.data) <= 100
    /\ \A n \in 1..Len(response.data) :
         /\ request.b # 0 => response.data[n].book = request.b
         /\ \A j \in 1..Len(AskedKeywords) :
              Contains(SearchableText(response.data[n]), AskedKeywords[j])
    /\ \A m, n \in 1..Len(response.data) :
         m < n => NotAfter(<<response.data[m].book, response.data[m].chapter, response.data[m].verse>>,
                           <<response.data[n].book, response.data[n].chapter, response.data[n].verse>>)

\* the position of a translation code in the list the caller asked for
TranslationRank(code) ==
  CHOOSE n \in 1..Len(TranslationsOf(request.translation)) :
    TranslationsOf(request.translation)[n] = code

\* the verse a row names
RowKey(row) == <<row.book, row.chapter, row.verse>>

\* the rows are grouped by translation in the order the caller asked for, and
\* ascending by (book, chapter, verse) inside a translation
GroupedByTranslation(rows) ==
  \A m, n \in 1..Len(rows) :
    m < n =>
      /\ TranslationRank(rows[m].translation) <= TranslationRank(rows[n].translation)
      /\ rows[m].translation = rows[n].translation
           => RowKey(rows[m]) # RowKey(rows[n]) /\ NotAfter(RowKey(rows[m]), RowKey(rows[n]))

\* the request is a reference query, or an index-mode query
ReferenceOrIndexAnswered ==
  /\ pc = "responded" /\ response.kind = "json"
  /\ \/ request.i # <<>>
     \/ request.q # <<>> /\ parse_query(request.q).type = "reference"

RECURSIVE RowsOfVerseIn(_, _, _)
RowsOfVerseIn(tables, key, translations) ==
  IF translations = <<>> THEN <<>>
  ELSE (IF key \in DOMAIN tables[Locate(Head(translations)).table]
        THEN << [book |-> key[1], chapter |-> key[2], verse |-> key[3],
                 translation |-> Head(translations)] >>
        ELSE <<>>)
       \o RowsOfVerseIn(tables, key, Tail(translations))

\* the rows of the listed triples, triple by triple in the order of the list
RECURSIVE RowsOfTriples(_, _, _)
RowsOfTriples(tables, refs, translations) ==
  IF refs = <<>> THEN <<>>
  ELSE (IF IsTriple(Head(refs))
        THEN RowsOfVerseIn(tables, ListedVerse(Head(refs)), translations)
        ELSE <<>>)
       \o RowsOfTriples(tables, Tail(refs), translations)

-----------------------------------------------------------------------------
(* Properties: Query Parser, pattern order and name resolution              *)

\* the query has been parsed and both patterns match it
BothPatternsMatch ==
  /\ pc = "parsed"
  /\ MatchSpaced(strip(query)).ok
  /\ MatchJoined(strip(query)).ok

\* the reference the groups of a match stand for when the name is book id
ReferenceOfGroups(m, id) ==
  [type |-> "reference", book_id |-> id, chapter |-> int(m.group2), verse |-> int(m.group3),
   verse_end |-> IF m.group4 # <<>> THEN int(m.group4) ELSE int(m.group3)]

\* C25: whenever both patterns match an input, the result is the one obtained
\* from the first (space-separated) pattern, a keyword query when its name
\* resolves to no book; the second pattern captures the same name and numbers
\* and never yields a reference with a different book, chapter or verse.
FirstPatternDecides ==
  BothPatternsMatch =>
    /\ strip(MatchJoined(strip(query)).group1) = MatchSpaced(strip(query)).group1
    /\ MatchJoined(strip(query)).group2 = MatchSpaced(strip(query)).group2
    /\ MatchJoined(strip(query)).group3 = MatchSpaced(strip(query)).group3
    /\ MatchJoined(strip(query)).group4 = MatchSpaced(strip(query)).group4
    /\ IF ResolveName(MatchSpaced(strip(query)).group1) # 0
       THEN result = ReferenceOfGroups(MatchSpaced(strip(query)),
                                       ResolveName(MatchSpaced(strip(query)).group1))
       ELSE result.type = "keyword"
    /\ TryPattern(MatchJoined(strip(query))) \in {None, result}

\* "John 3:16", which both patterns match, has been parsed as a reference
BothPatternsMatched ==
  /\ BothPatternsMatch
  /\ query = <<"J","o","h","n"," ","3",":","1","6">>
  /\ result.type = "reference"

-----------------------------------------------------------------------------
(* Properties: Search endpoint, empty keyword list                          *)

\* the request carries a q that holds whitespace only
BlankQueryAsked ==
  request.i = <<>> /\ request.q # <<>> /\ strip(request.q) = <<>>

\* C26: an empty or whitespace-only query string is classified as a keyword
\* query with an empty keyword list, and a keyword fetch with an empty keyword
\* list returns no rows without calling the store.
BlankQueryReturnsNothing ==
  /\ parse_query(<<>>) = [type |-> "keyword", keywords |-> <<>>]
  /\ BlankQueryAsked =>
       /\ parse_query(request.q) = [type |-> "keyword", keywords |-> <<>>]
       /\ pc \in {"search_called", "responded"}
       /\ jobs = <<>> /\ results = <<>>
       /\ pc = "responded" =>
            /\ response.kind = "json" /\ response.success
            /\ response.data = <<>> /\ response.count = 0

\* a whitespace-only q has been answered
BlankQueryAnswered == pc = "responded" /\ BlankQueryAsked

-----------------------------------------------------------------------------
(* Properties: Text Renderer, highlighting as a fold                        *)

\* t from position i on, with every occurrence of the non-empty term w met in a
\* scan from the left wrapped in the highlight marker; the scan goes on after
\* the occurrence, so occurrences do not overlap
RECURSIVE WrappedFrom(_, _, _)
WrappedFrom(t, w, i) ==
  IF i > Len(t) THEN <<>>
  ELSE IF HasAt(t, i, w)
  THEN <<"<","s","t","r","o","n","g",">">> \o w \o <<"<","/","s","t","r","o","n","g",">">> \o WrappedFrom(t, w, i + Len(w))
  ELSE <<t[i]>> \o WrappedFrom(t, w, i + 1)

\* the text after the first n terms of the list, each applied to the text the
\* terms before it left
RECURSIVE FoldedTo(_, _, _)
FoldedTo(t, terms, n) ==
  IF n = 0 THEN t
  ELSE IF terms[n] = <<>> THEN FoldedTo(t, terms, n - 1)
  ELSE WrappedFrom(FoldedTo(t, terms, n - 1), terms[n], 1)

\* C27: highlighting is a left fold over the term list in input order: for each
\* non-empty term every non-overlapping literal case-sensitive occurrence in
\* the current text is replaced by <strong>term</strong>, empty terms are
\* skipped, a later term is matched against the text rewritten by the earlier
\* terms, and with no term list the text is unchanged.
HighlightIsLeftFold ==
  pc = "rendered" =>
    /\ rendered = FoldedTo(annotated, queries, Len(queries))
    /\ queries = NoQueries => rendered = annotated

\* the term "o" has been matched inside the marker written for "love", past an
\* empty term
LaterTermMatchedInsideMarker ==
  /\ pc = "rendered"
  /\ queries = << <<"l","o","v","e">>, <<>>, <<"o">> >>
  /\ Contains(annotated, <<"l","o","v","e">>)
  /\ Contains(rendered, <<"<","s","t","r","<","s","t","r","o","n","g",">","o","<","/","s","t","r","o","n","g",">","n","g",">","l","<","s","t","r","o","n","g",">","o","<","/","s","t","r","o","n","g",">","v","e","<","/","s","t","r","<","s","t","r","o","n","g",">","o","<","/","s","t","r","o","n","g",">","n","g",">">>)

-----------------------------------------------------------------------------
(* Properties: Search API, the table named in the statement                  *)

\* the table name written into the text of the statement the store is running
StatementTable == TableOf(lower(Head(jobs).trans))

\* C28: the table name interpolated into the SQL text built by fetch_verses is
\* a value of table_map, for every translation code a caller can pass.
StatementTableIsWhitelisted ==
  (pc = "awaiting" /\ Head(jobs).kind = "fetch") => StatementTable \in MapTables

-----------------------------------------------------------------------------
(* Properties: Query Parser, the three lookups of a name                    *)

\* the id of the first of the three lookups of a name that finds a book, 0
\* when none does
FirstLookup(name) ==
  IF get_book_id(name) # 0 THEN get_book_id(name)
  ELSE IF get_book_id(lower(name)) # 0 THEN get_book_id(lower(name))
  ELSE get_book_id(rstrip(name, {".", ",", ";"}))

\* what one pattern yields: the reference of its groups when it matches and a
\* lookup of its name finds a book
ExpectedOfPattern(m) ==
  IF m.ok /\ FirstLookup(strip(m.group1)) # 0
  THEN ReferenceOfGroups(m, FirstLookup(strip(m.group1)))
  ELSE None

\* the names the patterns capture from the query
CapturedNames ==
  {strip(m.group1) : m \in {m \in {MatchSpaced(strip(query)), MatchJoined(strip(query))} : m.ok}}

\* an alias that holds a lower-case letter holds an upper-case letter too, so
\* no name other than an alias lowercases to an alias
NoAliasIsLowerCaseOnly ==
  \A e \in BOOK_INDEX :
    (\E n \in 1..Len(e[1]) : IsLower(e[1][n])) => (\E n \in 1..Len(e[1]) : IsUpper(e[1][n]))

\* C30: name resolution tries the exact name, then the lowercased name, then
\* the name with trailing '.', ',', ';' removed, and takes the first non-zero
\* id; with the alias table the lowercased lookup finds a book only when the
\* exact one did, so an all-lower-case Latin name ("john 3:16") is classified
\* as keywords.
ResolutionIsExactLoweredStripped ==
  /\ NoAliasIsLowerCaseOnly
  /\ parse_query(<<"j","o","h","n"," ","3",":","1","6">>) = [type |-> "keyword", keywords |-> << <<"j","o","h","n">>, <<"3",":","1","6">> >>]
  /\ pc = "parsed" =>
       /\ \A name \in CapturedNames :
            get_book_id(lower(name)) # 0 => get_book_id(name) = get_book_id(lower(name))
       /\ IF ExpectedOfPattern(MatchSpaced(strip(query))) # None
          THEN result = ExpectedOfPattern(MatchSpaced(strip(query)))
          ELSE IF ExpectedOfPattern(MatchJoined(strip(query))) # None
          THEN result = ExpectedOfPattern(MatchJoined(strip(query)))
          ELSE result.type = "keyword"

\* "John.3:16" has been parsed: only the third lookup finds the book
ResolvedByThirdLookup ==
  /\ pc = "parsed"
  /\ query = <<"J","o","h","n",".","3",":","1","6">>
  /\ get_book_id(<<"J","o","h","n",".">>) = 0 /\ get_book_id(<<"j","o","h","n",".">>) = 0
  /\ result.type = "reference" /\ result.book_id = 43

-----------------------------------------------------------------------------
(* Properties: Like endpoint, concurrent likes                              *)

\* the requests for verse v whose UPDATE has returned
Applied(v) == {c \in Clients : like_request[c] = v /\ like_pc[c] \in {"updated", "done"}}

\* no request has met a storage failure
NoLikeFailed == \A c \in Clients : like_pc[c] # "failed"

\* C29: no like is lost: after any interleaving of N like requests on the same
\* existing verse that all complete without a storage failure, the stored
\* counter is its initial value plus N, and no like request changes the counter
\* of another verse.
NoLikeIsLost ==
  (pc = "like" /\ NoLikeFailed) =>
    /\ DOMAIN likes = DOMAIN likes_initial
    /\ \A v \in DOMAIN likes : likes[v] = likes_initial[v] + Cardinality(Applied(v))

\* every request in flight was for the same stored verse and all have completed
AllLikedTheSameVerse ==
  /\ pc = "like"
  /\ \A c \in Clients : like_pc[c] = "done" /\ like_request[c] = <<43, 3, 16>>
  /\ likes[<<43, 3, 16>>] = likes_initial[<<43, 3, 16>>] + MaxClients
  /\ likes[<<45, 5, 8>>] = likes_initial[<<45, 5, 8>>]
====
